---- MODULE Spec2Model ----
(***************************************************************************)
(* Account sessions of signal-cli-rest-api in json-rpc mode: the slot      *)
(* counter file (utils.NextCtr), provisioning (utils.SaveSupervisorConf),  *)
(* the bootstrap helper (scripts/jsonrpc2-helper), the Subject Link Store  *)
(* (utils.SubStorage) and the session registry of client.SignalClient      *)
(* (Init, GetDeviceLinkAwait, Login, Logout, CheckAccess).                 *)
(*                                                                         *)
(* Request handlers run concurrently (one goroutine per HTTP request); a   *)
(* handler is a sequence of steps, one per access to shared state (the     *)
(* registry map, the store, the counter file, the file system).            *)
(***************************************************************************)
EXTENDS Integers, Sequences, FiniteSets, TLC

(* ---------------------------------------------------------------- bounds *)

\* A link flow is not started once the counter file holds MaxCtr.
MaxCtr == 2

\* The same bound for SpecSessions, under which login, logout and access
\* requests arrive as well.
MaxLinks == 1

\* Concurrent request handlers.
Procs == {"h1", "h2"}

\* Subjects (the "sub" of the caller's token).
Subs == {"a", "b"}

\* Account numbers the engine can report or the data directory can hold,
\* in the order os.ReadDir lists their files (sorted by file name).
NumberOrder == <<"+1", "+2">>

Numbers == {NumberOrder[i] : i \in 1..Len(NumberOrder)}

\* The data directories the helper can meet: the account files of the first
\* k numbers (the numbers differ in nothing but their place in the listing).
DataDirs == {{NumberOrder[i] : i \in 1..k} : k \in 0..Len(NumberOrder)}

\* Concurrent callers of call() on the sessions.
Callers == {"c1", "c2"}

\* No call() is begun once MaxCalls requests are written to the sessions.
MaxCalls == 2

\* Notifications that wait in the channel of one session.
MaxNotes == 1

\* Characters of the counter file when the program finds it.
MaxFileLen == 2

(* ------------------------------------------------------------- constants *)

\* utils.LinkNumber: the reserved identifier of the bootstrap (link-only) account.
LinkNumber == "<link>"

\* utils.LinkTcpPort: the base port; slot k listens on LinkTcpPort + k.
LinkTcpPort == 6001

fifoBasePathName == "/tmp/sigsocket"

\* The two directories SaveSupervisorConf is given: s.signalCliConfig by the
\* link flow, signalCliConfigDir + "data" by the bootstrap helper.
ConfigDir == "<config>"

DataDir == "<config>/data"

None == "none"

\* What a caller can name as the account: a number or the bootstrap account.
Targets == Numbers \cup {LinkNumber}

Ok == "ok"

(* ------------------------------------------------------ the counter file *)

\* The content of /tmp/signal-cli-ctr.lock is a string, here a sequence of
\* characters; an absent or empty file reads as the empty string.
EmptyFile == <<>>

\* The decimal digits, by value.
DigitChars == <<"0", "1", "2", "3", "4", "5", "6", "7", "8", "9">>

IsDigit(ch) == \E d \in 1..10 : DigitChars[d] = ch

DigitVal(ch) == (CHOOSE d \in 1..10 : DigitChars[d] = ch) - 1

\* A string ParseUint accepts: one digit or more, and digits only.
AllDigits(str) == str /= <<>> /\ \A i \in 1..Len(str) : IsDigit(str[i])

\* The value of a string of digits, base 10.
RECURSIVE UintVal(_)
UintVal(str) ==
    IF str = <<>> THEN 0
    ELSE UintVal(SubSeq(str, 1, Len(str) - 1)) * 10 + DigitVal(str[Len(str)])

ParseIntUnsigned(content) == IF AllDigits(content) THEN UintVal(content) ELSE 0

\* strconv.ParseInt(string(lockedData), 10, 64) with the error dropped: an
\* optional sign, then digits; the empty string and a string that is not of
\* this form give 0.
ParseInt(content) ==
    IF content = <<>> THEN 0
    ELSE LET body == IF content[1] \in {"+", "-"} THEN Tail(content) ELSE content
         IN  IF ~AllDigits(body) THEN 0
             ELSE IF content[1] = "-" THEN 0 - UintVal(body)
             ELSE UintVal(body)

RECURSIVE FormatUint(_)
FormatUint(n) ==
    IF n < 10 THEN <<DigitChars[n + 1]>>
    ELSE FormatUint(n \div 10) \o <<DigitChars[(n % 10) + 1]>>

\* strconv.FormatInt(n, 10) as file content.
FormatInt(n) == IF n < 0 THEN <<"-">> \o FormatUint(0 - n) ELSE FormatUint(n)

UnlockedAlways(holders) == TRUE

\* lockedfile.Transform takes the exclusive lock of the counter file for its
\* read, the call of the closure and its write: it goes on only when no other
\* holder has the lock.
Unlocked(holders) == holders = {}

\* The closure NextCtr hands to lockedfile.Transform: next = current + 1.
NextVal(current) == current + 1

NextCtrDropsError(current, writes) ==
    [next |-> NextVal(current), written |-> writes, err |-> Ok]

\* utils.NextCtr on a counter file read as current: next is set by the
\* closure; the error is that of lockedfile.Transform, which on a failed
\* write leaves the file with its old content.
NextCtr(current, writes) ==
    [next |-> NextVal(current), written |-> writes,
     err |-> IF writes THEN Ok ELSE "ctr_error"]

(* -------------------------------------------------- Subject Link Store *)

\* The rows of table linked_numbers, in insertion order.
LinkedNumber(sub, number, serviceID) ==
    [Number |-> number, Sub |-> sub, ServiceID |-> serviceID]

RowsOf(rows, number) == {i \in 1..Len(rows) : rows[i].Number = number}

FirstRow(rows, number) ==
    rows[CHOOSE i \in RowsOf(rows, number) : \A j \in RowsOf(rows, number) : i <= j]

\* SubStorage.GetSubByNumber: the Sub of the first row WHERE number = ?.
GetSubByNumber(rows, number) ==
    IF RowsOf(rows, number) = {}
    THEN [sub |-> "", ok |-> FALSE]
    ELSE [sub |-> FirstRow(rows, number).Sub, ok |-> TRUE]

CheckIfSubIsValidNotFound(rows, sub, number) ==
    LET found == GetSubByNumber(rows, number)
    IN  IF ~found.ok \/ sub /= found.sub THEN "not_found" ELSE Ok

CheckIfSubIsValidAnySub(rows, sub, number) ==
    IF ~GetSubByNumber(rows, number).ok THEN "not_found" ELSE Ok

\* SubStorage.CheckIfSubIsValid.
CheckIfSubIsValid(rows, sub, number) ==
    LET found == GetSubByNumber(rows, number)
    IN  IF ~found.ok THEN "not_found"
        ELSE IF sub /= found.sub THEN "another_user"
        ELSE Ok

NewAlreadyLinkedErrorAnother(number, thisUser) == "already_linked_another_user"

\* AlreadyLinkedError{Number, ThisUser}.
NewAlreadyLinkedError(number, thisUser) ==
    IF thisUser THEN "already_linked_this_user" ELSE "already_linked_another_user"

\* SubStorage.CheckIfAlreadyLinked.
CheckIfAlreadyLinked(rows, sub, number) ==
    LET found == GetSubByNumber(rows, number)
    IN  IF ~found.ok THEN Ok ELSE NewAlreadyLinkedError(number, sub = found.sub)

\* SubStorage.LinkSub from its call to its return; creates tells whether
\* the insert succeeds.
LinkSub(rows, sub, number, serviceID, creates) ==
    LET found == GetSubByNumber(rows, number)
    IN  IF found.ok
        THEN [rows |-> rows, err |-> NewAlreadyLinkedError(number, sub = found.sub)]
        ELSE IF creates
        THEN [rows |-> Append(rows, LinkedNumber(sub, number, serviceID)), err |-> Ok]
        ELSE [rows |-> rows, err |-> "db_error"]

(* ----------------------------------------------------------- provisioning *)

FifoPathName(ctr) == <<fifoBasePathName, ctr>>

ProgramName(ctr) == <<"signal-cli-json-rpc-", ctr>>

LogFolder(ctr) == <<"/var/log/", ProgramName(ctr)>>

SupervisorctlConfigFirstDir(ctr, number, signalCliConfigDir) ==
    [program |-> ProgramName(ctr),
     tcpPort |-> LinkTcpPort + ctr,
     fifo |-> FifoPathName(ctr),
     provisioningParams |->
        IF number /= LinkNumber
        THEN <<"-u", number, "--config", <<signalCliConfigDir, 0>>>>
        ELSE <<>>,
     jsonRpcParams |-> IF number /= LinkNumber THEN <<>> ELSE <<"--receive-mode=manual">>,
     logFolder |-> LogFolder(ctr)]

\* The text of the descriptor, by the values formatted into the template:
\* configDir is filepath.Join(signalCliConfigDir, slot); an account other
\* than LinkNumber gets "-u number --config configDir", LinkNumber gets
\* "--receive-mode=manual".
SupervisorctlConfig(ctr, number, signalCliConfigDir) ==
    [program |-> ProgramName(ctr),
     tcpPort |-> LinkTcpPort + ctr,
     fifo |-> FifoPathName(ctr),
     provisioningParams |->
        IF number /= LinkNumber
        THEN <<"-u", number, "--config", <<signalCliConfigDir, ctr>>>>
        ELSE <<>>,
     jsonRpcParams |-> IF number /= LinkNumber THEN <<>> ELSE <<"--receive-mode=manual">>,
     logFolder |-> LogFolder(ctr)]

SetAt(f, k, v) == [x \in DOMAIN f \cup {k} |-> IF x = k THEN v ELSE f[x]]

RemoveAt(f, k) == [x \in DOMAIN f \ {k} |-> f[x]]

ConfFileName(ctr) == <<"/etc/supervisor/conf.d/", ProgramName(ctr), ".conf">>

\* The user that runs jsonrpc2-helper and the API, and so every command of
\* SaveSupervisorConf: the entrypoint runs both itself, as root.
ProcessUser == "root"

\* The run-as uid and gid of the configuration (SIGNAL_CLI_UID,
\* SIGNAL_CLI_GID).
RunAs == "SIGNAL_CLI_UID:SIGNAL_CLI_GID"

\* No pipe exists, so none has an owner.
NoOwners == [x \in {} |-> ProcessUser]

RemoveNothing(pipes, path) == pipes

\* os.Remove(fifoPathName), its error dropped: a pipe left at the path by an
\* earlier run is gone.
Remove(pipes, path) == pipes \ {path}

\* mkfifo fifoPathName fails when the command cannot create the pipe, and
\* always when the path exists.
MkfifoFails(pipes, path, failAt) == failAt = "mkfifo" \/ path \in pipes

TcpPortAfter(ctr) == LinkTcpPort + ctr + 1

\* tcpPort = LinkTcpPort + *ctr: the rendezvous port of a slot.
TcpPort(ctr) == LinkTcpPort + ctr

CtrAfterAnyway(ctr, err) == ctr + 1

\* *ctr += 1 is the last statement before the return: it is reached only
\* when no step has returned an error.
CtrAfter(ctr, err) == IF err = Ok THEN ctr + 1 ELSE ctr

\* utils.SaveSupervisorConf on the file system fs = [fifos, fifoOwners,
\* logDirs, confFiles]; failAt names the step that fails ("mkfifo", "mkdir",
\* "write"), or None. resource is the path the error message names. The
\* pipe that mkfifo creates belongs to the user that runs the command, and
\* no later step changes its owner.
SaveSupervisorConf(fs, ctr, number, signalCliConfigDir, failAt) ==
    LET fifoPathName == FifoPathName(ctr)
        tcpPort == TcpPort(ctr)
        removed == [fs EXCEPT !.fifos = Remove(@, fifoPathName),
                              !.fifoOwners = RemoveAt(@, fifoPathName)]
        piped == [removed EXCEPT !.fifos = @ \cup {fifoPathName},
                                 !.fifoOwners = SetAt(@, fifoPathName, ProcessUser)]
        logged == [piped EXCEPT !.logDirs = @ \cup {LogFolder(ctr)}]
        written == [logged EXCEPT !.confFiles =
                       SetAt(@, ctr, SupervisorctlConfig(ctr, number, signalCliConfigDir))]
        ret(f, e, res) == [fs |-> f, ctr |-> CtrAfter(ctr, e), tcpPort |-> tcpPort,
                           fifoPathName |-> fifoPathName, err |-> e, resource |-> res]
    IN  IF MkfifoFails(removed.fifos, fifoPathName, failAt)
        THEN ret(removed, "fifo_error", fifoPathName)
        ELSE IF failAt = "mkdir" THEN ret(piped, "logdir_error", LogFolder(ctr))
        ELSE IF failAt = "write" THEN ret(logged, "write_error", ConfFileName(ctr))
        ELSE ret(written, Ok, <<>>)

FailPoints == {None, "mkfifo", "mkdir", "write"}

ServiceIdNext(tcpPort) == tcpPort - LinkTcpPort + 1

\* id := tcpPort - LinkTcpPort.
ServiceId(tcpPort) == tcpPort - LinkTcpPort

\* utils.StartServiceByPort(tcpPort): an error and no command for a port
\* below LinkTcpPort, supervisorctl start signal-cli-json-rpc-<id> otherwise;
\* runs says whether the command succeeds.
StartServiceByPort(tcpPort, runs) ==
    IF ServiceId(tcpPort) < 0 THEN [err |-> "invalid_port", command |-> <<>>]
    ELSE [err |-> IF runs THEN Ok ELSE "start_error",
          command |-> <<"supervisorctl", "start", ProgramName(ServiceId(tcpPort))>>]

\* utils.StopServiceByPort(tcpPort): as StartServiceByPort, with
\* supervisorctl stop.
StopServiceByPort(tcpPort, runs) ==
    IF ServiceId(tcpPort) < 0 THEN [err |-> "invalid_port", command |-> <<>>]
    ELSE [err |-> IF runs THEN Ok ELSE "stop_error",
          command |-> <<"supervisorctl", "stop", ProgramName(ServiceId(tcpPort))>>]

(* --------------------------------------------------------------- sessions *)

\* client.NewJsonRpc2Client(config, number, tcpPort, sub): a session that is
\* Stopped and not logged in, with an empty pending-call table; the first
\* call id it gives out is 1.
NewJsonRpc2Client(number, tcpPort, sub) ==
    [number |-> number, tcpPort |-> tcpPort, sub |-> sub, loggedIn |-> FALSE,
     state |-> "Stopped", nextId |-> 1, pending |-> [x \in {} |-> None]]

StartValidAlways(client) == TRUE

\* Start is valid only from Stopped.
StartValid(client) == client.state = "Stopped"

\* Stop is valid only from Running.
StopValid(client) == client.state = "Running"

\* The transitions of a session. Start: Stopped -> Starting.
ToStarting(client) == [client EXCEPT !.state = "Starting"]

\* Start, the connection is established: Starting -> Running; the session is
\* marked logged in.
ToRunning(client) == [client EXCEPT !.state = "Running", !.loggedIn = TRUE]

\* An unrecoverable connection error: Starting or Running -> Failed. The
\* calls that wait are unblocked (see FailPending), the table is empty.
ToFailed(client) ==
    [client EXCEPT !.state = "Failed", !.loggedIn = FALSE, !.pending = [x \in {} |-> None]]

\* Stop: Running -> Stopping.
ToStopping(client) == [client EXCEPT !.state = "Stopping", !.loggedIn = FALSE]

\* Stop, the connection is closed, and the cleanup after a failure:
\* Stopping or Failed -> Stopped, with no call pending.
ToStopped(client) ==
    [client EXCEPT !.state = "Stopped", !.loggedIn = FALSE, !.pending = [x \in {} |-> None]]

\* JsonRpc2Client.Start from its call to its return, on a session no call
\* waits on: valid only from Stopped; the session is Running when the
\* connection is established, and Stopped again, by way of Failed, when it
\* is not.
Start(client, connects) ==
    IF ~StartValid(client) THEN [client |-> client, err |-> "start_error"]
    ELSE IF connects THEN [client |-> ToRunning(ToStarting(client)), err |-> Ok]
    ELSE [client |-> ToStopped(ToFailed(ToStarting(client))), err |-> "start_error"]

\* JsonRpc2Client.Stop from its call to its return, on a session no call
\* waits on: valid only from Running.
Stop(client, stops) ==
    IF ~StopValid(client) \/ ~stops THEN [client |-> client, err |-> "stop_error"]
    ELSE [client |-> ToStopped(ToStopping(client)), err |-> Ok]

IsNumberLoggedInNoCheck(registry, number) ==
    IF number \notin DOMAIN registry
    THEN [loggedIn |-> FALSE, err |-> "unknown_number"]
    ELSE [loggedIn |-> FALSE, err |-> Ok]

\* SignalClient.IsNumberLoggedIn.
IsNumberLoggedIn(registry, number) ==
    IF number \notin DOMAIN registry
    THEN [loggedIn |-> FALSE, err |-> "unknown_number"]
    ELSE IF registry[number].loggedIn
         THEN [loggedIn |-> TRUE, err |-> "already_logged_in"]
         ELSE [loggedIn |-> FALSE, err |-> Ok]

CheckAccessErrSubOnly(registry, sub, number) ==
    IF number \notin DOMAIN registry THEN "unknown_number"
    ELSE IF registry[number].sub /= sub THEN "not_this_user"
    ELSE Ok

\* SignalClient.CheckAccess.
CheckAccessErr(registry, sub, number) ==
    IF number \notin DOMAIN registry THEN "unknown_number"
    ELSE IF ~registry[number].loggedIn THEN "not_logged_in"
    ELSE IF registry[number].sub /= sub THEN "not_this_user"
    ELSE Ok

getJsonRpc2ClientShared(registry, number) ==
    IF number = LinkNumber \/ number \notin DOMAIN registry
    THEN [key |-> None, err |-> "not_registered"]
    ELSE [key |-> LinkNumber, err |-> Ok]

\* SignalClient.getJsonRpc2Client(number): the session the registry holds
\* under the number (key names it), never the bootstrap session.
getJsonRpc2Client(registry, number) ==
    IF number = LinkNumber THEN [key |-> None, err |-> "not_registered"]
    ELSE IF number \in DOMAIN registry THEN [key |-> number, err |-> Ok]
    ELSE [key |-> None, err |-> "not_registered"]

\* The session a call for an account is made on: the handlers of account
\* requests take getJsonRpc2Client(number), the link flow takes
\* s.jsonRpc2Clients[utils.LinkNumber].
SessionFor(registry, number) ==
    IF number /= LinkNumber THEN getJsonRpc2Client(registry, number)
    ELSE IF LinkNumber \in DOMAIN registry THEN [key |-> LinkNumber, err |-> Ok]
    ELSE [key |-> None, err |-> "no_system_number"]

\* What the registry holds for a number when a handler first looks it up.
RegStatus(registry, number) ==
    IF number \notin DOMAIN registry THEN "unknown"
    ELSE IF registry[number].loggedIn THEN "logged_in"
    ELSE "logged_out"

(* ------------------------------------------------------------------ state *)

VARIABLES
    phase,       \* "helper": jsonrpc2-helper is to run; "init": SignalClient.Init
                 \* is to run; "running": the API serves requests
    ctrFile,     \* content of /tmp/signal-cli-ctr.lock
    lockHolders, \* the handlers holding the lock on the counter file
    dataFiles,   \* account files <config>/data/<number>
    configDirs,  \* slot -> account: the credential directory <config>/<slot>
    fifos,       \* named pipes that exist
    fifoOwners,  \* named pipe -> the user (or uid:gid) that owns it
    logDirs,     \* log directories that exist
    confFiles,   \* slot -> descriptor signal-cli-json-rpc-<slot>.conf
    yml,         \* jsonrpc2.yml: number -> [tcpPort, fifoPathname]
    store,       \* rows of the Subject Link Store
    clients,     \* SignalClient.jsonRpc2Clients: number -> session
    h,           \* per request handler: its position (pc), the operation and
                 \* its arguments (op, sub, num), its locals (ctr, cur, tcpPort),
                 \* what its first registry lookup found (entry)
    last,        \* what the last step returned to a caller, if it returned:
                 \* the request, what the handler's first registry lookup
                 \* found, the result, and the session call (Start, Stop)
                 \* the step made
    issued,      \* the ids NextCtr has returned, in the order of the returns
    ctr0,        \* ParseInt of the counter file before any NextCtr
    calls,       \* per caller of a session's call(): its position (pc), the
                 \* session (num), its call id (id), the place of its request
                 \* among the requests written to the session (req), its
                 \* result (ret) and the request the result answers (got)
    sent,        \* per account, the requests written to its session since it
                 \* was built, in order: the call id and the caller of each
    notes,       \* per account, the notification channel of its session: the
                 \* notifications that wait for the consumer (queued), and
                 \* whether the read loop waits in a push (blocked)
    svc          \* the last call of StartServiceByPort or StopServiceByPort:
                 \* the function (op), its argument (tcpPort), its result
                 \* (err) and the supervisorctl command it ran (command)

vars == <<phase, ctrFile, lockHolders, dataFiles, configDirs, fifos, fifoOwners, logDirs,
          confFiles,
          yml, store, clients, h, last, issued, ctr0, calls, sent, notes, svc>>

disk == <<fifos, fifoOwners, logDirs, confFiles>>

NoReturn == [op |-> None, sub |-> None, num |-> None, entry |-> None,
             ret |-> None, call |-> None]

Empty == [x \in {} |-> None]

Fs == [fifos |-> fifos, fifoOwners |-> fifoOwners, logDirs |-> logDirs,
       confFiles |-> confFiles]

Idle == [pc |-> "idle", op |-> None, sub |-> None, num |-> None, ctr |-> 0, cur |-> 0,
         tcpPort |-> 0, entry |-> None]

\* A caller that is in no call.
NoCall == [pc |-> "idle", num |-> None, id |-> 0, req |-> 0, ret |-> None, got |-> 0,
           seen |-> [t \in Targets |-> 0]]

\* Neither StartServiceByPort nor StopServiceByPort was called.
NoService == [op |-> None, tcpPort |-> 0, err |-> None, command |-> <<>>]

\* A notification channel nothing was pushed to.
NoNotes == [queued |-> 0, blocked |-> FALSE]

\* A handler that takes request op(sub, num) and stands at label.
Begun(label, o, s, n, e) ==
    [Idle EXCEPT !.pc = label, !.op = o, !.sub = s, !.num = n, !.entry = e]

\* Handler p, in state r, returns result to its caller, having made the
\* session call `call` in this step.
Returns(p, r, result, call) ==
    /\ h' = [h EXCEPT ![p] = Idle]
    /\ last' = [op |-> r.op, sub |-> r.sub, num |-> r.num, entry |-> r.entry,
                ret |-> result, call |-> call]

\* Handler p goes on in state r.
GoesOn(p, r) ==
    /\ h' = [h EXCEPT ![p] = r]
    /\ last' = NoReturn

\* No result waits to be taken by a caller: the program takes its steps from
\* such states (see Respond).
Ready == last = NoReturn

\* The handler takes its next request.
Free(p) == h[p].pc = "idle"

Init ==
    /\ phase = "helper"
    /\ ctrFile = EmptyFile
    /\ lockHolders = {}
    /\ dataFiles \in DataDirs
    /\ configDirs = Empty
    /\ fifos = {}
    /\ fifoOwners = NoOwners
    /\ logDirs = {}
    /\ confFiles = Empty
    /\ yml = Empty
    /\ store = <<>>
    /\ clients = Empty
    /\ h = [p \in Procs |-> Idle]
    /\ last = NoReturn
    /\ issued = <<>>
    /\ ctr0 = ParseInt(ctrFile)
    /\ calls = [c \in Callers |-> NoCall]
    /\ sent = [n \in Targets |-> <<>>]
    /\ notes = [n \in Targets |-> NoNotes]
    /\ svc = NoService

(* ------------------------------------------------------ bootstrap helper *)

RECURSIVE Filter(_, _)
Filter(seq, S) ==
    IF seq = <<>> THEN <<>>
    ELSE IF Head(seq) \in S THEN <<Head(seq)>> \o Filter(Tail(seq), S)
    ELSE Filter(Tail(seq), S)

\* The accounts the helper provisions, in order: the bootstrap account, then
\* the account files of the data directory as os.ReadDir lists them.
HelperItems(files) == <<LinkNumber>> \o Filter(NumberOrder, files)

\* JsonRpc2ClientConfig.AddEntry.
AddEntry(config, number, e) == SetAt(config, number, e)

\* The provisioning loop of the helper's main from item i on; st = [fs, ctr,
\* config, err]. A failed SaveSupervisorConf ends the helper (log.Fatal).
RECURSIVE HelperLoop(_, _, _, _, _)
HelperLoop(items, i, st, failIdx, failAt) ==
    IF i > Len(items) THEN st
    ELSE LET r == SaveSupervisorConf(st.fs, st.ctr, items[i], DataDir,
                                     IF i = failIdx THEN failAt ELSE None)
         IN  IF r.err /= Ok
             THEN [st EXCEPT !.fs = r.fs, !.err = r.err]
             ELSE HelperLoop(items, i + 1,
                             [fs |-> r.fs, ctr |-> r.ctr,
                              config |-> AddEntry(st.config, items[i],
                                  [tcpPort |-> r.tcpPort, fifoPathname |-> r.fifoPathName]),
                              err |-> Ok],
                             failIdx, failAt)

\* main of jsonrpc2-helper: var ctr int64 = 0, provision every item, persist
\* jsonrpc2.yml. On a fatal error the helper exits and is run again.
HelperMain ==
    /\ Ready
    /\ phase = "helper"
    /\ \E failIdx \in 0..Len(HelperItems(dataFiles)), failAt \in FailPoints :
         /\ (failIdx = 0) = (failAt = None)
         /\ LET st == HelperLoop(HelperItems(dataFiles), 1,
                                 [fs |-> Fs, ctr |-> 0, config |-> Empty, err |-> Ok],
                                 failIdx, failAt)
            IN  /\ fifos' = st.fs.fifos
                /\ fifoOwners' = st.fs.fifoOwners
                /\ logDirs' = st.fs.logDirs
                /\ confFiles' = st.fs.confFiles
                /\ IF st.err = Ok
                   THEN yml' = st.config /\ phase' = "init"
                   ELSE yml' = yml /\ phase' = "helper"
    /\ UNCHANGED <<ctrFile, lockHolders, dataFiles, configDirs, store, clients, h, last,
                   issued, ctr0, calls, sent, notes, svc>>

\* JsonRpc2ClientConfig.GetTcpPortsForNumbers.
GetTcpPortsForNumbers(config) == [n \in DOMAIN config |-> config[n].tcpPort]

\* What Init returns in json-rpc mode once the two configurations are
\* loaded: s.jsonRpc2Clients[utils.LinkNumber].Start() is a statement of its
\* own, its result is dropped, and Init ends with return nil.
InitErr(startErr) == Ok

\* SignalClient.Init in json-rpc mode: the bootstrap session is built on
\* LinkTcpPort and started (the result of Start is dropped); a session is
\* built for every number of jsonrpc2.yml that the store has a row for.
\* main ends the process (log.Fatal) when Init returns an error, and goes on
\* to serve requests otherwise.
ClientInit ==
    /\ Ready
    /\ phase = "init"
    /\ \E connects \in BOOLEAN :
         LET started == Start(NewJsonRpc2Client(LinkNumber, LinkTcpPort, ""), connects)
             link == started.client
             ports == GetTcpPortsForNumbers(yml)
             found == {n \in DOMAIN ports \ {LinkNumber} : GetSubByNumber(store, n).ok}
         IN  IF InitErr(started.err) /= Ok
             THEN /\ clients' = Empty
                  /\ phase' = "helper"
             ELSE /\ clients' = [n \in found \cup {LinkNumber} |->
                                    IF n = LinkNumber THEN link
                                    ELSE NewJsonRpc2Client(n, ports[n],
                                                           GetSubByNumber(store, n).sub)]
                  /\ phase' = "running"
    /\ UNCHANGED <<ctrFile, lockHolders, dataFiles, configDirs, disk, yml, store, h, last,
                   issued, ctr0, calls, sent, notes, svc>>

\* The container is restarted: the processes and their memory are gone, the
\* files stay.
Restart ==
    /\ Ready
    /\ phase = "running"
    /\ phase' = "helper"
    /\ lockHolders' = {}
    /\ clients' = Empty
    /\ h' = [p \in Procs |-> Idle]
    /\ last' = NoReturn
    /\ calls' = [c \in Callers |-> NoCall]
    /\ sent' = [n \in Targets |-> <<>>]
    /\ notes' = [n \in Targets |-> NoNotes]
    /\ UNCHANGED <<ctrFile, dataFiles, configDirs, disk, yml, store, issued, ctr0, svc>>

(* --------------------------------------------------------- link flow *)

\* GetDeviceLinkAwait(deviceLinkUri, sub, ctx) up to the point where
\* lockedfile.Transform, called by NextCtr, holds the lock on the counter file
\* and has read it; or NextCtr fails (the lock file cannot be opened or
\* locked) and the handler returns the error.
LinkNextCtrLock(p, s) ==
    /\ Ready
    /\ phase = "running"
    /\ Free(p)
    /\ LET r == Begun("nextctr_write", "link", s, None, None)
       IN  IF LinkNumber \notin DOMAIN clients
           THEN /\ Returns(p, r, "no_system_number", None)
                /\ UNCHANGED lockHolders
           ELSE \/ /\ Unlocked(lockHolders)
                   /\ lockHolders' = lockHolders \cup {p}
                   /\ GoesOn(p, [r EXCEPT !.cur = ParseInt(ctrFile)])
                \/ /\ Returns(p, r, "ctr_error", None)
                   /\ UNCHANGED lockHolders
    /\ UNCHANGED <<phase, ctrFile, dataFiles, configDirs, disk, yml, store, clients,
                   issued, ctr0, calls, sent, notes, svc>>

\* The rest of lockedfile.Transform and the return of NextCtr: the new
\* content is written, or the write fails and the file keeps what it held;
\* the lock is released. GetDeviceLinkAwait returns the error of NextCtr, and
\* goes on with the id otherwise.
LinkNextCtrWrite(p) ==
    /\ Ready
    /\ h[p].pc = "nextctr_write"
    /\ p \in lockHolders
    /\ \E writes \in BOOLEAN :
         LET r == NextCtr(h[p].cur, writes)
         IN  /\ ctrFile' = IF r.written THEN FormatInt(r.next) ELSE ctrFile
             /\ IF r.err /= Ok
                THEN /\ Returns(p, h[p], r.err, None)
                     /\ UNCHANGED issued
                ELSE /\ GoesOn(p, [h[p] EXCEPT !.pc = "finish_link", !.ctr = r.next,
                                                !.cur = 0])
                     /\ issued' = Append(issued, r.next)
    /\ lockHolders' = lockHolders \ {p}
    /\ UNCHANGED <<phase, dataFiles, configDirs, disk, yml, store, clients, ctr0, calls, sent, notes, svc>>

\* The finishLink call on the bootstrap session with configDir =
\* <config>/<ctr> fails or is cancelled; or the engine links an account n,
\* having stored its credentials in that directory, and SubStorage.LinkSub
\* makes its first statement, GetSubByNumber: a number that has a row gives
\* an AlreadyLinkedError, and GetDeviceLinkAwait removes configDir.
LinkFinishLinkSubGet(p) ==
    /\ Ready
    /\ h[p].pc = "finish_link"
    /\ \/ \E n \in Numbers :
            LET found == GetSubByNumber(store, n)
                r == [h[p] EXCEPT !.num = n]
            IN  IF found.ok
                THEN /\ Returns(p, r, NewAlreadyLinkedError(n, h[p].sub = found.sub), None)
                     /\ configDirs' = RemoveAt(configDirs, h[p].ctr)
                ELSE /\ GoesOn(p, [r EXCEPT !.pc = "linksub_create"])
                     /\ configDirs' = SetAt(configDirs, h[p].ctr, n)
       \/ /\ Returns(p, h[p], "link_error", None)
          /\ UNCHANGED configDirs
    /\ UNCHANGED <<phase, ctrFile, lockHolders, dataFiles, disk, yml, store, clients,
                   issued, ctr0, calls, sent, notes, svc>>

\* SubStorage.LinkSub, last statement: s.Create(row). The table has no
\* unique key on number (jinzhu/gorm reads the tag primary_key, not
\* primaryKey), so the insert does not look at the rows that exist.
LinkSubCreate(p) ==
    /\ Ready
    /\ h[p].pc = "linksub_create"
    /\ \/ /\ store' = Append(store, LinkedNumber(h[p].sub, h[p].num, h[p].ctr))
          /\ GoesOn(p, [h[p] EXCEPT !.pc = "save_conf"])
          /\ UNCHANGED configDirs
       \/ /\ Returns(p, h[p], "db_error", None)
          /\ configDirs' = RemoveAt(configDirs, h[p].ctr)
          /\ UNCHANGED store
    /\ UNCHANGED <<phase, ctrFile, lockHolders, dataFiles, disk, yml, clients, issued, ctr0, calls, sent, notes, svc>>

\* What GetDeviceLinkAwait returns after LinkSub: the error of
\* SaveSupervisorConf, else the error of RereadSupervisorConf (reread tells
\* whether supervisorctl reread succeeds), else no error.
LinkResult(err, reread) ==
    IF err /= Ok THEN err ELSE IF ~reread THEN "reread_error" ELSE Ok

LinkRegistersUnlessSaveFails(err, reread) == err = Ok

\* The registration is the statement after both early returns.
LinkRegisters(err, reread) == LinkResult(err, reread) = Ok

\* The rest of GetDeviceLinkAwait: utils.SaveSupervisorConf(&ctr, number,
\* s.signalCliConfig), utils.RereadSupervisorConf, and s.jsonRpc2Clients[number]
\* = NewJsonRpc2Client(config, number, tcpPort, sub).
LinkSaveRereadRegister(p) ==
    /\ Ready
    /\ h[p].pc = "save_conf"
    /\ \E failAt \in FailPoints, reread \in BOOLEAN :
         LET r == SaveSupervisorConf(Fs, h[p].ctr, h[p].num, ConfigDir, failAt)
         IN  /\ fifos' = r.fs.fifos
             /\ fifoOwners' = r.fs.fifoOwners
             /\ logDirs' = r.fs.logDirs
             /\ confFiles' = r.fs.confFiles
             /\ r.err /= Ok => reread
             /\ Returns(p, h[p], LinkResult(r.err, reread), None)
             /\ clients' = IF LinkRegisters(r.err, reread)
                           THEN SetAt(clients, h[p].num,
                                      NewJsonRpc2Client(h[p].num, r.tcpPort, h[p].sub))
                           ELSE clients
    /\ UNCHANGED <<phase, ctrFile, lockHolders, dataFiles, configDirs, yml, store,
                   issued, ctr0, calls, sent, notes, svc>>

(* ------------------------------------------------- login, logout, access *)

\* The error of the two checks SignalClient.Login makes before Start:
\* IsNumberLoggedIn(number), then s.subStorage.CheckIfSubIsValid(sub, number).
LoginChecks(registry, rows, s, n) ==
    LET e == IsNumberLoggedIn(registry, n).err
    IN  IF e /= Ok THEN e ELSE CheckIfSubIsValid(rows, s, n)

LogoutChecksNoStore(registry, rows, s, n) ==
    IF ~IsNumberLoggedIn(registry, n).loggedIn THEN "not_logged_in" ELSE Ok

\* The error of the two checks SignalClient.Logout makes before Stop:
\* loggedIn, _ := IsNumberLoggedIn(number), the error dropped, then
\* s.subStorage.CheckIfSubIsValid(sub, number).
LogoutChecks(registry, rows, s, n) ==
    IF ~IsNumberLoggedIn(registry, n).loggedIn THEN "not_logged_in"
    ELSE CheckIfSubIsValid(rows, s, n)

\* SignalClient.Login(sub, number) up to the call of Start.
LoginCheck(p, s, n) ==
    /\ Ready
    /\ phase = "running"
    /\ Free(p)
    /\ LET r == Begun("login_start", "login", s, n, RegStatus(clients, n))
           e == LoginChecks(clients, store, s, n)
       IN  IF e /= Ok THEN Returns(p, r, e, None) ELSE GoesOn(p, r)
    /\ UNCHANGED <<phase, ctrFile, lockHolders, dataFiles, configDirs, disk, yml, store,
                   clients, issued, ctr0, calls, sent, notes, svc>>

\* Login, last statement: s.jsonRpc2Clients[number].Start().
LoginStart(p) ==
    /\ Ready
    /\ h[p].pc = "login_start"
    /\ h[p].num \in DOMAIN clients
    /\ \E connects \in BOOLEAN :
         LET r == Start(clients[h[p].num], connects)
         IN  /\ clients' = SetAt(clients, h[p].num, r.client)
             /\ Returns(p, h[p], r.err, "Start")
    /\ UNCHANGED <<phase, ctrFile, lockHolders, dataFiles, configDirs, disk, yml, store,
                   issued, ctr0, calls, sent, notes, svc>>

\* SignalClient.Logout(sub, number) up to the call of Stop.
LogoutCheck(p, s, n) ==
    /\ Ready
    /\ phase = "running"
    /\ Free(p)
    /\ LET r == Begun("logout_stop", "logout", s, n, RegStatus(clients, n))
           e == LogoutChecks(clients, store, s, n)
       IN  IF e /= Ok THEN Returns(p, r, e, None) ELSE GoesOn(p, r)
    /\ UNCHANGED <<phase, ctrFile, lockHolders, dataFiles, configDirs, disk, yml, store,
                   clients, issued, ctr0, calls, sent, notes, svc>>

\* Logout, last statement: s.jsonRpc2Clients[number].Stop().
LogoutStop(p) ==
    /\ Ready
    /\ h[p].pc = "logout_stop"
    /\ h[p].num \in DOMAIN clients
    /\ \E stops \in BOOLEAN :
         LET r == Stop(clients[h[p].num], stops)
         IN  /\ clients' = SetAt(clients, h[p].num, r.client)
             /\ Returns(p, h[p], r.err, "Stop")
    /\ UNCHANGED <<phase, ctrFile, lockHolders, dataFiles, configDirs, disk, yml, store,
                   issued, ctr0, calls, sent, notes, svc>>

\* SignalClient.CheckAccess(sub, number).
CheckAccess(p, s, n) ==
    /\ Ready
    /\ phase = "running"
    /\ Free(p)
    /\ Returns(p, Begun("idle", "access", s, n, RegStatus(clients, n)),
               CheckAccessErr(clients, s, n), None)
    /\ UNCHANGED <<phase, ctrFile, lockHolders, dataFiles, configDirs, disk, yml, store,
                   clients, issued, ctr0, calls, sent, notes, svc>>

\* The caller takes the result of the step that returned. A result is
\* observed in the state right after that step; taking it changes nothing of
\* the program, and the program's steps are taken from the states in which no
\* result waits to be taken.
Respond ==
    /\ last /= NoReturn
    /\ last' = NoReturn
    /\ UNCHANGED <<phase, ctrFile, lockHolders, dataFiles, configDirs, disk, yml, store,
                   clients, h, issued, ctr0, calls, sent, notes, svc>>

Next ==
    \/ Respond
    \/ HelperMain
    \/ ClientInit
    \/ Restart
    \/ \E p \in Procs, s \in Subs :
         ParseInt(ctrFile) < MaxCtr /\ LinkNextCtrLock(p, s)
    \/ \E p \in Procs : LinkNextCtrWrite(p)
    \/ \E p \in Procs : LinkFinishLinkSubGet(p)
    \/ \E p \in Procs : LinkSubCreate(p)
    \/ \E p \in Procs : LinkSaveRereadRegister(p)
    \/ \E p \in Procs, s \in Subs, n \in Targets : LoginCheck(p, s, n)
    \/ \E p \in Procs : LoginStart(p)
    \/ \E p \in Procs, s \in Subs, n \in Targets : LogoutCheck(p, s, n)
    \/ \E p \in Procs : LogoutStop(p)
    \/ \E p \in Procs, s \in Subs, n \in Targets : CheckAccess(p, s, n)

\* The whole program: bootstrap, restarts, and handlers serving link, login,
\* logout and access requests.
Spec == Init /\ [][Next]_vars

\* The program while only link requests arrive.
NextLinks ==
    \/ Respond
    \/ HelperMain
    \/ ClientInit
    \/ Restart
    \/ \E p \in Procs, s \in Subs :
         ParseInt(ctrFile) < MaxCtr /\ LinkNextCtrLock(p, s)
    \/ \E p \in Procs : LinkNextCtrWrite(p)
    \/ \E p \in Procs : LinkFinishLinkSubGet(p)
    \/ \E p \in Procs : LinkSubCreate(p)
    \/ \E p \in Procs : LinkSaveRereadRegister(p)

SpecLinks == Init /\ [][NextLinks]_vars

\* The whole program while at most MaxLinks link flows are started.
NextSessions ==
    \/ Respond
    \/ HelperMain
    \/ ClientInit
    \/ Restart
    \/ \E p \in Procs, s \in Subs :
         ParseInt(ctrFile) < MaxLinks /\ LinkNextCtrLock(p, s)
    \/ \E p \in Procs : LinkNextCtrWrite(p)
    \/ \E p \in Procs : LinkFinishLinkSubGet(p)
    \/ \E p \in Procs : LinkSubCreate(p)
    \/ \E p \in Procs : LinkSaveRereadRegister(p)
    \/ \E p \in Procs, s \in Subs, n \in Targets : LoginCheck(p, s, n)
    \/ \E p \in Procs : LoginStart(p)
    \/ \E p \in Procs, s \in Subs, n \in Targets : LogoutCheck(p, s, n)
    \/ \E p \in Procs : LogoutStop(p)
    \/ \E p \in Procs, s \in Subs, n \in Targets : CheckAccess(p, s, n)

SpecSessions == Init /\ [][NextSessions]_vars

(* ------------------------------------------------- the session transport *)

\* What the transport leaves alone: the files, the store and the counter.
outside == <<phase, ctrFile, lockHolders, dataFiles, configDirs, disk, yml, store,
             issued, ctr0, svc>>

\* The read loop reports a line it discarded.
Discarded(n) == [NoReturn EXCEPT !.op = "line", !.num = n, !.ret = "discarded"]

\* The requests written to all sessions.
RECURSIVE SentUpTo(_)
SentUpTo(i) == IF i = 0 THEN Len(sent[LinkNumber]) ELSE Len(sent[NumberOrder[i]]) + SentUpTo(i - 1)

TotalSent == SentUpTo(Len(NumberOrder))

NextIdSame(id) == id

\* The call id after id: ids are given out in ascending order, none twice.
NextId(id) == id + 1

FailPendingNone(cs, client, err) == cs

\* The callers whose calls are in the pending table of a session are
\* unblocked with err.
FailPending(cs, client, err) ==
    [c \in Callers |->
        IF /\ cs[c].pc = "waiting"
           /\ cs[c].id \in DOMAIN client.pending
           /\ client.pending[cs[c].id] = c
        THEN [cs[c] EXCEPT !.pc = "done", !.ret = err]
        ELSE cs[c]]

\* Start, called by Login: from Stopped the session is Starting; from any
\* other state Start returns an error.
StartBegin(p) ==
    /\ Ready
    /\ h[p].pc = "login_start"
    /\ h[p].num \in DOMAIN clients
    /\ IF StartValid(clients[h[p].num])
       THEN /\ clients' = SetAt(clients, h[p].num, ToStarting(clients[h[p].num]))
            /\ GoesOn(p, [h[p] EXCEPT !.pc = "login_connect"])
       ELSE /\ Returns(p, h[p], "start_error", "Start")
            /\ UNCHANGED clients
    /\ UNCHANGED <<outside, calls, sent, notes>>

\* Start: the connection to the rendezvous port is established and the
\* session is Running, or it is not and the session is Failed.
StartConnect(p) ==
    /\ Ready
    /\ h[p].pc = "login_connect"
    /\ \E connects \in BOOLEAN :
         IF connects
         THEN /\ clients' = SetAt(clients, h[p].num, ToRunning(clients[h[p].num]))
              /\ Returns(p, h[p], Ok, "Start")
         ELSE /\ clients' = SetAt(clients, h[p].num, ToFailed(clients[h[p].num]))
              /\ GoesOn(p, [h[p] EXCEPT !.pc = "login_cleanup"])
    /\ UNCHANGED <<outside, calls, sent, notes>>

\* Start: after the cleanup of a failed connection the session is Stopped,
\* and Start returns the error.
StartCleanup(p) ==
    /\ Ready
    /\ h[p].pc = "login_cleanup"
    /\ clients' = SetAt(clients, h[p].num, ToStopped(clients[h[p].num]))
    /\ Returns(p, h[p], "start_error", "Start")
    /\ UNCHANGED <<outside, calls, sent, notes>>

\* Stop, called by Logout: from Running the session is Stopping; from any
\* other state, or when the supervisor does not stop the program, Stop
\* returns an error.
StopBegin(p) ==
    /\ Ready
    /\ h[p].pc = "logout_stop"
    /\ h[p].num \in DOMAIN clients
    /\ \E stops \in BOOLEAN :
         IF StopValid(clients[h[p].num]) /\ stops
         THEN /\ clients' = SetAt(clients, h[p].num, ToStopping(clients[h[p].num]))
              /\ GoesOn(p, [h[p] EXCEPT !.pc = "logout_close"])
         ELSE /\ Returns(p, h[p], "stop_error", "Stop")
              /\ UNCHANGED clients
    /\ UNCHANGED <<outside, calls, sent, notes>>

\* Stop: the connection is closed, every pending call fails with the
\* session-closed error, and the session is Stopped.
StopEnd(p) ==
    /\ Ready
    /\ h[p].pc = "logout_close"
    /\ calls' = FailPending(calls, clients[h[p].num], "session_closed")
    /\ clients' = SetAt(clients, h[p].num, ToStopped(clients[h[p].num]))
    /\ Returns(p, h[p], Ok, "Stop")
    /\ UNCHANGED <<outside, sent, notes>>

\* call(method, params, timeout) on the session of n, under the session's
\* lock: a session that is not Running refuses the call; a Running one gives
\* it a fresh call id, writes the request line and enters the id in the
\* pending table; the caller then waits.
CallBegin(c, n) ==
    /\ Ready
    /\ calls[c].pc = "idle"
    /\ SessionFor(clients, n).err = Ok
    /\ TotalSent < MaxCalls
    /\ LET k == SessionFor(clients, n).key
       IN  IF clients[k].state /= "Running"
           THEN /\ calls' = [calls EXCEPT ![c] =
                                [NoCall EXCEPT !.pc = "done", !.num = n,
                                               !.ret = "session_closed"]]
                /\ UNCHANGED <<clients, sent, svc>>
           ELSE LET id == clients[k].nextId
                IN  /\ clients' = SetAt(clients, k,
                                        [clients[k] EXCEPT !.nextId = NextId(id),
                                                           !.pending = SetAt(@, id, c)])
                    /\ sent' = [sent EXCEPT ![k] = Append(@, [id |-> id, by |-> c])]
                    /\ calls' = [calls EXCEPT ![c] =
                                    [NoCall EXCEPT !.pc = "waiting", !.num = n, !.id = id,
                                                   !.req = Len(sent[k]) + 1]]
    /\ UNCHANGED <<outside, h, last, notes>>

UnregisterNothing(pending, id) == pending

\* The entry of a call id is removed from the pending table.
Unregister(pending, id) == RemoveAt(pending, id)

PendingForAny(pending, id) == IF id \in DOMAIN pending THEN {id} ELSE DOMAIN pending

\* The lookup of the read loop: the entries of the pending table that a
\* line with this call id completes.
PendingFor(pending, id) == IF id \in DOMAIN pending THEN {id} ELSE {}

\* What the read loop does with a response line that carries a call id and
\* answers request k: the pending call the lookup finds is completed with
\* the line and its entry removed; a line the lookup finds no entry for is
\* discarded.
Deliver(client, cs, id, k) ==
    LET found == PendingFor(client.pending, id)
    IN  IF found = {}
        THEN [client |-> client, calls |-> cs, discarded |-> TRUE]
        ELSE LET i == CHOOSE x \in found : TRUE
             IN  [client |-> [client EXCEPT !.pending = Unregister(@, i)],
                  calls |-> [cs EXCEPT ![client.pending[i]] =
                                [@ EXCEPT !.pc = "done", !.ret = "result", !.got = k]],
                  discarded |-> FALSE]

\* The call id of the line ReadLine(n, k) reads.
LineId(n, k) == IF k = 0 THEN 0 ELSE sent[n][k].id

\* The read loop of the session of n takes the next line of its connection:
\* the session is Running and the loop does not wait in a push.
CanRead(n) ==
    /\ n \in DOMAIN clients
    /\ clients[n].state = "Running"
    /\ ~notes[n].blocked

\* The notifications that wait in each channel.
Queued == [t \in Targets |-> notes[t].queued]

\* The read loop of the session of n reads a response line: the engine's
\* answer to the k-th request written to the session, whenever and however
\* often the engine sends it, or (k = 0) a line with a call id no request
\* had.
ReadLine(n, k) ==
    /\ Ready
    /\ CanRead(n)
    /\ k \in 0..Len(sent[n])
    /\ LET r == Deliver(clients[n], calls, LineId(n, k), k)
       IN  /\ calls' = [c \in Callers |->
                            IF r.calls[c] = calls[c] THEN calls[c]
                            ELSE [r.calls[c] EXCEPT !.seen = Queued]]
           /\ clients' = SetAt(clients, n, r.client)
           /\ last' = IF r.discarded THEN Discarded(n) ELSE last
    /\ UNCHANGED <<outside, h, sent, notes>>

\* The deadline of a waiting call elapses: its entry is removed from the
\* pending table and the caller is unblocked with the timeout error.
CallTimeout(c) ==
    /\ Ready
    /\ calls[c].pc = "waiting"
    /\ LET n == calls[c].num
           id == calls[c].id
       IN  clients' = IF id \in DOMAIN clients[n].pending /\ clients[n].pending[id] = c
                      THEN SetAt(clients, n, [clients[n] EXCEPT !.pending = Unregister(@, id)])
                      ELSE clients
    /\ calls' = [calls EXCEPT ![c] = [@ EXCEPT !.pc = "done", !.ret = "timeout"]]
    /\ UNCHANGED <<outside, h, last, sent, notes>>

WithdrawNothing(client, id, c) == client

\* A caller that gives up its call takes the entry of its call id out of the
\* pending table, if the entry is still there.
Withdraw(client, id, c) ==
    IF id \in DOMAIN client.pending /\ client.pending[id] = c
    THEN [client EXCEPT !.pending = Unregister(@, id)]
    ELSE client

\* The context of a waiting call is cancelled, or its deadline passes (the
\* HTTP request of the caller has gone away): the entry of the call is taken
\* out of the pending table and the caller is unblocked with the error of
\* the context.
CallCancel(c) ==
    /\ Ready
    /\ calls[c].pc = "waiting"
    /\ clients' = SetAt(clients, calls[c].num,
                        Withdraw(clients[calls[c].num], calls[c].id, c))
    /\ calls' = [calls EXCEPT ![c] = [@ EXCEPT !.pc = "done", !.ret = "cancelled"]]
    /\ UNCHANGED <<outside, h, last, sent, notes>>

\* The caller takes the outcome of its call.
CallReturn(c) ==
    /\ Ready
    /\ calls[c].pc = "done"
    /\ calls' = [calls EXCEPT ![c] = NoCall]
    /\ UNCHANGED <<outside, clients, h, last, sent, notes>>

PushBlocks(ch) == [ch EXCEPT !.blocked = TRUE]

\* A notification is pushed onto the channel of a session: it waits there
\* for the consumer, and the read loop goes on.
Push(ch) == [ch EXCEPT !.queued = @ + 1]

\* The consumer takes a notification from the channel (the one a waiting
\* push hands over, if a push waits).
Take(ch) == IF ch.blocked THEN [ch EXCEPT !.blocked = FALSE] ELSE [ch EXCEPT !.queued = @ - 1]

\* The read loop of the session of n reads a line without a call id, a
\* notification of the engine, and pushes it onto the session's channel.
ReadNotification(n) ==
    /\ Ready
    /\ CanRead(n)
    /\ notes[n].queued < MaxNotes
    /\ notes' = [notes EXCEPT ![n] = Push(@)]
    /\ UNCHANGED <<outside, clients, calls, h, last, sent>>

\* The consumer of the channel of n (a receive request) takes a notification.
TakeNotification(n) ==
    /\ Ready
    /\ notes[n].queued > 0 \/ notes[n].blocked
    /\ notes' = [notes EXCEPT ![n] = Take(@)]
    /\ UNCHANGED <<outside, clients, calls, h, last, sent>>

\* An unrecoverable error of the connection (reset, malformed line) while
\* the session is Running: the session is Failed and the pending calls fail
\* with the session-closed error.
TransportError(n) ==
    /\ Ready
    /\ n \in DOMAIN clients
    /\ clients[n].state = "Running"
    /\ calls' = FailPending(calls, clients[n], "session_closed")
    /\ clients' = SetAt(clients, n, ToFailed(clients[n]))
    /\ UNCHANGED <<outside, h, last, sent, notes>>

\* The cleanup after the failure of a Running session: Failed -> Stopped.
ReadLoopCleanup(n) ==
    /\ Ready
    /\ n \in DOMAIN clients
    /\ clients[n].state = "Failed"
    /\ \A p \in Procs : ~(h[p].pc = "login_cleanup" /\ h[p].num = n)
    /\ clients' = SetAt(clients, n, ToStopped(clients[n]))
    /\ UNCHANGED <<outside, calls, h, last, sent, notes>>

\* The account, its subject and its slot in the state LinkedOnce.
LinkedAccount == [Number |-> NumberOrder[1], Sub |-> "a", ServiceID |-> NextVal(ParseInt(EmptyFile))]

\* The file system after the helper has provisioned the bootstrap account
\* (an empty data directory) and a link flow has provisioned LinkedAccount.
LinkedOnceFs ==
    SaveSupervisorConf(
        SaveSupervisorConf([fifos |-> {}, fifoOwners |-> NoOwners, logDirs |-> {},
                            confFiles |-> Empty],
                           0, LinkNumber, DataDir, None).fs,
        LinkedAccount.ServiceID, LinkedAccount.Number, ConfigDir, None).fs

\* The API is running; the helper found no account file, the bootstrap
\* session was started by Init, and one GetDeviceLinkAwait has linked
\* LinkedAccount; no request is being handled. (SpecLinks reaches it.)
LinkedOnce ==
    /\ phase = "running"
    /\ ctrFile = FormatInt(LinkedAccount.ServiceID)
    /\ lockHolders = {}
    /\ dataFiles = {}
    /\ configDirs = SetAt(Empty, LinkedAccount.ServiceID, LinkedAccount.Number)
    /\ fifos = LinkedOnceFs.fifos
    /\ fifoOwners = LinkedOnceFs.fifoOwners
    /\ logDirs = LinkedOnceFs.logDirs
    /\ confFiles = LinkedOnceFs.confFiles
    /\ yml = AddEntry(Empty, LinkNumber,
                      [tcpPort |-> LinkTcpPort, fifoPathname |-> FifoPathName(0)])
    /\ store = <<LinkedAccount>>
    /\ clients = SetAt(SetAt(Empty, LinkNumber,
                             Start(NewJsonRpc2Client(LinkNumber, LinkTcpPort, ""), TRUE).client),
                       LinkedAccount.Number,
                       NewJsonRpc2Client(LinkedAccount.Number,
                                         LinkTcpPort + LinkedAccount.ServiceID,
                                         LinkedAccount.Sub))
    /\ h = [p \in Procs |-> Idle]
    /\ last = NoReturn
    /\ issued = <<LinkedAccount.ServiceID>>
    /\ ctr0 = ParseInt(EmptyFile)
    /\ calls = [c \in Callers |-> NoCall]
    /\ sent = [n \in Targets |-> <<>>]
    /\ notes = [n \in Targets |-> NoNotes]
    /\ svc = NoService

\* The API from the state LinkedOnce on, with the steps of its sessions:
\* Login and Logout call Start and Stop, callers make calls, the read loops
\* read what the engine sends.
NextTransport ==
    \/ Respond
    \/ \E p \in Procs, s \in Subs, n \in Targets : LoginCheck(p, s, n)
    \/ \E p \in Procs : StartBegin(p)
    \/ \E p \in Procs : StartConnect(p)
    \/ \E p \in Procs : StartCleanup(p)
    \/ \E p \in Procs, s \in Subs, n \in Targets : LogoutCheck(p, s, n)
    \/ \E p \in Procs : StopBegin(p)
    \/ \E p \in Procs : StopEnd(p)
    \/ \E c \in Callers, n \in Targets : CallBegin(c, n)
    \/ \E n \in Targets, k \in 0..MaxCalls : ReadLine(n, k)
    \/ \E c \in Callers : CallTimeout(c)
    \/ \E c \in Callers : CallCancel(c)
    \/ \E c \in Callers : CallReturn(c)
    \/ \E n \in Targets : TransportError(n)
    \/ \E n \in Targets : ReadLoopCleanup(n)

SpecTransport == LinkedOnce /\ [][NextTransport]_vars

\* The API from the state LinkedOnce on while sessions are started, calls
\* are made and answered, and the engines send notifications.
NextNotify ==
    \/ Respond
    \/ \E p \in Procs, s \in Subs, n \in Targets : LoginCheck(p, s, n)
    \/ \E p \in Procs : StartBegin(p)
    \/ \E p \in Procs : StartConnect(p)
    \/ \E p \in Procs : StartCleanup(p)
    \/ \E c \in Callers, n \in Targets : CallBegin(c, n)
    \/ \E n \in Targets, k \in 0..MaxCalls : ReadLine(n, k)
    \/ \E n \in Targets : ReadNotification(n)
    \/ \E n \in Targets : TakeNotification(n)
    \/ \E c \in Callers : CallReturn(c)

SpecNotify == LinkedOnce /\ [][NextNotify]_vars

(* ------------------------------------------------ the registry map, raced *)

\* The handlers that are inside the assignment s.jsonRpc2Clients[number] = ...
\* (runtime.mapassign has begun and has not returned).
RegWriters == {p \in Procs : h[p].pc = "registering"}

\* GetDeviceLinkAwait from SaveSupervisorConf to RereadSupervisorConf, up to
\* the assignment to the registry map.
LinkSaveReread(p) ==
    /\ Ready
    /\ h[p].pc = "save_conf"
    /\ \E failAt \in FailPoints, reread \in BOOLEAN :
         LET r == SaveSupervisorConf(Fs, h[p].ctr, h[p].num, ConfigDir, failAt)
         IN  /\ fifos' = r.fs.fifos
             /\ fifoOwners' = r.fs.fifoOwners
             /\ logDirs' = r.fs.logDirs
             /\ confFiles' = r.fs.confFiles
             /\ r.err /= Ok => reread
             /\ IF LinkRegisters(r.err, reread)
                THEN GoesOn(p, [h[p] EXCEPT !.pc = "register", !.tcpPort = r.tcpPort])
                ELSE Returns(p, h[p], LinkResult(r.err, reread), None)
    /\ UNCHANGED <<phase, ctrFile, lockHolders, dataFiles, configDirs, yml, store, clients,
                   issued, ctr0, calls, sent, notes, svc>>

\* The assignment to the map begins: SignalClient has no lock, so nothing
\* keeps the handler from writing while others read or write.
MapWriteBegin(p) ==
    /\ Ready
    /\ h[p].pc = "register"
    /\ GoesOn(p, [h[p] EXCEPT !.pc = "registering"])
    /\ UNCHANGED <<phase, ctrFile, lockHolders, dataFiles, configDirs, disk, yml, store,
                   clients, issued, ctr0, calls, sent, notes, svc>>

\* The registry as it is when the write of handler p is done.
Written(registry, p) ==
    SetAt(registry, h[p].num, NewJsonRpc2Client(h[p].num, h[p].tcpPort, h[p].sub))

\* The assignment is done, and GetDeviceLinkAwait returns.
MapWriteEnd(p) ==
    /\ Ready
    /\ h[p].pc = "registering"
    /\ clients' = Written(clients, p)
    /\ Returns(p, h[p], Ok, None)
    /\ UNCHANGED <<phase, ctrFile, lockHolders, dataFiles, configDirs, disk, yml, store,
                   issued, ctr0, calls, sent, notes, svc>>

\* CheckAccess(sub, number), with its lookup s.jsonRpc2Clients[number]. A
\* lookup that runs while a handler writes the map is a data race: it finds
\* the map as it was or as the writer leaves it, or the runtime ends the
\* process (fatal error: concurrent map read and map write).
RegistryLookup(p, s, n) ==
    \/ /\ RegWriters = {}
       /\ CheckAccess(p, s, n)
    \/ /\ RegWriters /= {}
       /\ Ready
       /\ phase = "running"
       /\ Free(p)
       /\ \E view \in {clients} \cup {Written(clients, w) : w \in RegWriters} :
            Returns(p, Begun("idle", "access", s, n, RegStatus(view, n)),
                    CheckAccessErr(view, s, n), None)
       /\ UNCHANGED <<phase, ctrFile, lockHolders, dataFiles, configDirs, disk, yml, store,
                      clients, issued, ctr0, calls, sent, notes, svc>>
    \/ /\ RegWriters /= {}
       /\ Free(p)
       /\ Restart

\* The API from the state LinkedOnce on while link and access requests
\* arrive, with the assignment to the registry map as a step that takes time.
NextRegistry ==
    \/ Respond
    \/ \E p \in Procs, s \in Subs :
         ParseInt(ctrFile) < MaxCtr /\ LinkNextCtrLock(p, s)
    \/ \E p \in Procs : LinkNextCtrWrite(p)
    \/ \E p \in Procs : LinkFinishLinkSubGet(p)
    \/ \E p \in Procs : LinkSubCreate(p)
    \/ \E p \in Procs : LinkSaveReread(p)
    \/ \E p \in Procs : MapWriteBegin(p)
    \/ \E p \in Procs : MapWriteEnd(p)
    \/ \E p \in Procs, s \in Subs, n \in Targets : RegistryLookup(p, s, n)

SpecRegistry == LinkedOnce /\ [][NextRegistry]_vars

(* ------------------------------------------- the counter file, as found *)

\* Characters the counter file may hold when the program finds it: digits,
\* signs, and a character that is neither.
CtrChars == {"0", "1", "9", "-", "+", "x"}

\* The contents of the counter file the program may find.
CtrContents == UNION {[1..k -> CtrChars] : k \in 0..MaxFileLen}

\* The API is running after the helper and Init, on an empty data
\* directory, and the counter file holds content.
BootedWith(content) ==
    /\ phase = "running"
    /\ ctrFile = content
    /\ lockHolders = {}
    /\ dataFiles = {}
    /\ configDirs = Empty
    /\ fifos = {FifoPathName(0)}
    /\ fifoOwners = SetAt(NoOwners, FifoPathName(0), ProcessUser)
    /\ logDirs = {LogFolder(0)}
    /\ confFiles = SetAt(Empty, 0, SupervisorctlConfig(0, LinkNumber, DataDir))
    /\ yml = AddEntry(Empty, LinkNumber,
                      [tcpPort |-> LinkTcpPort, fifoPathname |-> FifoPathName(0)])
    /\ store = <<>>
    /\ clients = SetAt(Empty, LinkNumber,
                       Start(NewJsonRpc2Client(LinkNumber, LinkTcpPort, ""), TRUE).client)
    /\ h = [p \in Procs |-> Idle]
    /\ last = NoReturn
    /\ issued = <<>>
    /\ ctr0 = ParseInt(content)
    /\ calls = [c \in Callers |-> NoCall]
    /\ sent = [n \in Targets |-> <<>>]
    /\ notes = [n \in Targets |-> NoNotes]
    /\ svc = NoService

CtrFileFound == \E content \in CtrContents : BootedWith(content)

\* The calls of NextCtr that have returned an id or hold the lock.
NextCtrCalls == Len(issued) + Cardinality({p \in Procs : h[p].pc = "nextctr_write"})

\* At most MaxLinks link requests on a counter file found with any content.
NextCtrFile ==
    \/ Respond
    \/ \E p \in Procs, s \in Subs :
         NextCtrCalls < MaxLinks /\ LinkNextCtrLock(p, s)
    \/ \E p \in Procs : LinkNextCtrWrite(p)
    \/ \E p \in Procs : LinkFinishLinkSubGet(p)
    \/ \E p \in Procs : LinkSubCreate(p)
    \/ \E p \in Procs : LinkSaveRereadRegister(p)

SpecCtr == CtrFileFound /\ [][NextCtrFile]_vars

(* ------------------------------------------- services addressed by port *)

\* The ports the service functions are called with: one below the base
\* port, and the ports of the slots.
ServicePorts == (LinkTcpPort - 1)..(LinkTcpPort + MaxCtr)

\* A call of utils.StartServiceByPort(tcpPort). (Nothing in the program
\* calls it; it is applied here to every port.)
StartService ==
    /\ Ready
    /\ phase = "running"
    /\ \E tcpPort \in ServicePorts, runs \in BOOLEAN :
         LET r == StartServiceByPort(tcpPort, runs)
         IN  svc' = [op |-> "start", tcpPort |-> tcpPort, err |-> r.err,
                     command |-> r.command]
    /\ UNCHANGED <<phase, ctrFile, lockHolders, dataFiles, configDirs, disk, yml, store,
                   clients, h, last, issued, ctr0, calls, sent, notes>>

\* A call of utils.StopServiceByPort(tcpPort).
StopService ==
    /\ Ready
    /\ phase = "running"
    /\ \E tcpPort \in ServicePorts, runs \in BOOLEAN :
         LET r == StopServiceByPort(tcpPort, runs)
         IN  svc' = [op |-> "stop", tcpPort |-> tcpPort, err |-> r.err,
                     command |-> r.command]
    /\ UNCHANGED <<phase, ctrFile, lockHolders, dataFiles, configDirs, disk, yml, store,
                   clients, h, last, issued, ctr0, calls, sent, notes>>

\* Link flows provision further slots; the service functions are called at
\* any time with any port.
NextService ==
    \/ Respond
    \/ \E p \in Procs, s \in Subs :
         ParseInt(ctrFile) < MaxCtr /\ LinkNextCtrLock(p, s)
    \/ \E p \in Procs : LinkNextCtrWrite(p)
    \/ \E p \in Procs : LinkFinishLinkSubGet(p)
    \/ \E p \in Procs : LinkSubCreate(p)
    \/ \E p \in Procs : LinkSaveRereadRegister(p)
    \/ StartService
    \/ StopService

SpecService == LinkedOnce /\ [][NextService]_vars

(* ------------------------------------------------------------ properties *)

\* The subject the store lists as the owner of number is sub: the row
\* inserted first for number names sub.
ListsAsOwner(rows, sub, number) ==
    \E i \in 1..Len(rows) :
        /\ rows[i].Number = number
        /\ rows[i].Sub = sub
        /\ \A j \in 1..(i - 1) : rows[j].Number /= number

\* C1: the ids NextCtr has returned to its callers, however the calls
\* interleave, are pairwise distinct and are the contiguous run k+1..k+n,
\* k being the value of the counter file before the calls; no two calls hold
\* the lock (read, increment, write back) at once.
NextCtrDistinctContiguous ==
    /\ \A i \in 1..Len(issued) : issued[i] = ctr0 + i
    /\ \A p, q \in Procs :
         p /= q /\ h[p].ctr /= 0 /\ h[q].ctr /= 0 => h[p].ctr /= h[q].ctr
    /\ Cardinality(lockHolders) <= 1

\* Two link flows hold an id each at the same time, the second having run
\* NextCtr while the first was still under way.
NextCtrTwoCallers ==
    /\ Len(issued) = 2
    /\ \A p \in Procs : h[p].pc = "finish_link" /\ h[p].ctr /= 0

\* C2: however LinkSub calls on one number by different subjects interleave,
\* at most one of them writes a row: the store never holds rows that link
\* one number to two subjects.
LinkSubOneSubjectPerNumber ==
    \A i, j \in 1..Len(store) :
        store[i].Number = store[j].Number => store[i].Sub = store[j].Sub

\* C3, the states: a Login that found the session logged in, and a Login
\* whose subject the store does not list as the owner of the number, return
\* an error without a call of Start; a handler stands before Start, or has
\* called it, only for a subject the store lists as the owner.
LoginChecksBeforeStart ==
    /\ last.op = "login" /\ last.entry = "logged_in" =>
         last.ret /= Ok /\ last.call = None
    /\ last.op = "login" /\ ~ListsAsOwner(store, last.sub, last.num) =>
         last.ret /= Ok /\ last.call = None
    /\ last.call = "Start" => ListsAsOwner(store, last.sub, last.num)
    /\ \A p \in Procs :
         h[p].pc = "login_start" => ListsAsOwner(store, h[p].sub, h[p].num)

\* C3, the steps: a step in which Login returns without a call of Start
\* leaves the registry, and with it every session's logged-in state, as it
\* was; a session becomes logged in only in a step that calls Start.
LoginFailureChangesNothing ==
    /\ last'.op = "login" /\ last'.call = None => clients' = clients
    /\ \A n \in DOMAIN clients \cap DOMAIN clients' :
         ~clients[n].loggedIn /\ clients'[n].loggedIn =>
             last'.call = "Start" /\ last'.num = n

\* C3: Login fails, without a call of Start and with the session's logged-in
\* state unchanged, when the session is already logged in and when the store
\* does not list sub as the owner of number; Start is called only after the
\* store has confirmed that sub owns number.
LoginFailsWithoutStart ==
    []LoginChecksBeforeStart /\ [][LoginFailureChangesNothing]_vars

\* A Login by a subject the store does not list as the owner is refused
\* while the owner's Login of the same number has passed both checks and
\* stands before Start.
LoginRefusedOwnerAdmitted ==
    /\ last.op = "login"
    /\ last.ret = "another_user"
    /\ last.call = None
    /\ \E p \in Procs : h[p].pc = "login_start" /\ h[p].num = last.num

\* Another subject than sub is listed by the store as the owner of number.
OwnedByAnother(rows, sub, number) ==
    \E t \in Subs \ {sub} : ListsAsOwner(rows, t, number)

\* C4 as amended: a Login of a number that another subject owns fails: with
\* the unknown-number error when no session is registered, with the
\* already-logged-in error when the session is logged in, and with the
\* ownership error otherwise; the owner's Login of a session that is logged
\* in fails too, with the already-logged-in error, and calls no Start.
LoginOwnershipErrors ==
    /\ last.op = "login" /\ OwnedByAnother(store, last.sub, last.num) =>
         /\ last.call = None
         /\ last.ret = CASE last.entry = "unknown" -> "unknown_number"
                         [] last.entry = "logged_in" -> "already_logged_in"
                         [] OTHER -> "another_user"
    /\ last.op = "login" /\ last.entry = "logged_in"
         /\ ListsAsOwner(store, last.sub, last.num) =>
         last.ret = "already_logged_in" /\ last.call = None

\* The owner, whose Login has logged the session in, repeats the Login and
\* is refused.
LoginRepeatedByOwner ==
    /\ last.op = "login"
    /\ last.entry = "logged_in"
    /\ ListsAsOwner(store, last.sub, last.num)
    /\ last.ret = "already_logged_in"
    /\ clients[last.num].loggedIn

\* C4 as stated: a Login of a number that has a session and that another
\* subject owns fails with an ownership error, and the owner's repeated
\* Login, of a session that is logged in, succeeds.
LoginIdempotentForOwner ==
    /\ last.op = "login" /\ last.entry /= "unknown"
         /\ OwnedByAnother(store, last.sub, last.num) =>
         last.ret \in {"another_user", "already_logged_in"}
    /\ last.op = "login" /\ last.entry = "logged_in"
         /\ ListsAsOwner(store, last.sub, last.num) =>
         last.ret = Ok

\* C5, the states: Logout calls Stop only for the subject the store lists as
\* the owner, on a session it found logged in; a Logout by another subject,
\* or one that found the session not logged in, returns an error without a
\* call of Stop.
LogoutChecksBeforeStop ==
    /\ last.op = "logout" /\ last.call = "Stop" =>
         ListsAsOwner(store, last.sub, last.num) /\ last.entry = "logged_in"
    /\ last.op = "logout"
         /\ (last.entry /= "logged_in" \/ ~ListsAsOwner(store, last.sub, last.num)) =>
         last.ret /= Ok /\ last.call = None
    /\ \A p \in Procs :
         h[p].pc = "logout_stop" =>
             ListsAsOwner(store, h[p].sub, h[p].num) /\ h[p].entry = "logged_in"

\* C5, the steps: a step in which Logout returns without a call of Stop
\* leaves the registry, and with it every session's logged-in state, as it
\* was.
LogoutFailureChangesNothing ==
    last'.op = "logout" /\ last'.call = None => clients' = clients

\* C5: Logout stops the session only for the subject that owns the logged-in
\* session; any other Logout fails, calls no Stop and leaves the session's
\* logged-in state unchanged.
LogoutOnlyByOwner ==
    []LogoutChecksBeforeStop /\ [][LogoutFailureChangesNothing]_vars

\* A subject that does not own the number asks to log out a session that is
\* logged in, and is refused; the session is still logged in.
LogoutRefusedForOther ==
    /\ last.op = "logout"
    /\ last.entry = "logged_in"
    /\ last.ret = "another_user"
    /\ last.num \in DOMAIN clients
    /\ clients[last.num].loggedIn

\* C6: for each of Login, Logout and CheckAccess, the error for a number
\* that has no session in the registry differs from the error for a number
\* whose session exists and is not logged in.
UnknownDistinctFromLoggedOut ==
    \A n, m \in Numbers, s, t \in Subs :
        RegStatus(clients, n) = "unknown" /\ RegStatus(clients, m) = "logged_out" =>
            /\ LoginChecks(clients, store, s, n) /= LoginChecks(clients, store, t, m)
            /\ LogoutChecks(clients, store, s, n) /= LogoutChecks(clients, store, t, m)
            /\ CheckAccessErr(clients, s, n) /= CheckAccessErr(clients, t, m)

\* The slot of an entry of jsonrpc2.yml.
SlotOf(entry) == entry.tcpPort - LinkTcpPort

\* C7: once the helper has provisioned the bootstrap account and the
\* accounts it discovered, every id NextCtr returns to the link flow is
\* greater than every slot the helper assigned.
NextCtrAboveBootstrapSlots ==
    \A i \in 1..Len(issued), n \in DOMAIN yml : issued[i] > SlotOf(yml[n])

\* The account of row r was linked in full: its credentials are in the
\* directory of its slot and its descriptor is written.
LinkedInFull(r) ==
    /\ r.ServiceID \in DOMAIN configDirs
    /\ configDirs[r.ServiceID] = r.Number
    /\ r.ServiceID \in DOMAIN confFiles
    /\ confFiles[r.ServiceID] = SupervisorctlConfig(r.ServiceID, r.Number, ConfigDir)

\* C8: when the helper has run, it has found every account linked before,
\* and has provisioned it again under the slot the store records for it (so
\* that Init registers its session on the port of that slot).
RestartRediscoversLinked ==
    phase = "init" =>
        \A i \in 1..Len(store) :
            LinkedInFull(store[i]) =>
                /\ store[i].Number \in DOMAIN yml
                /\ SlotOf(yml[store[i].Number]) = store[i].ServiceID

\* C9: every provisioned account (an entry of jsonrpc2.yml, a session of the
\* registry) has the pipe of its slot, and two provisioned accounts never
\* have the same port.
ProvisionedSlotsDistinct ==
    /\ \A n \in DOMAIN yml : yml[n].fifoPathname = FifoPathName(SlotOf(yml[n]))
    /\ \A n, m \in DOMAIN yml : n /= m => yml[n].tcpPort /= yml[m].tcpPort
    /\ \A n, m \in DOMAIN clients : n /= m => clients[n].tcpPort /= clients[m].tcpPort
    /\ \A n \in DOMAIN yml, m \in DOMAIN clients :
         n /= m => yml[n].tcpPort /= clients[m].tcpPort

\* C10: a session of the registry is never replaced by another session for
\* the same account: as long as the account has an entry, the entry keeps
\* its port and its subject.
RegistryEntryNeverReplaced ==
    [][\A n \in DOMAIN clients \cap DOMAIN clients' :
          /\ clients'[n].tcpPort = clients[n].tcpPort
          /\ clients'[n].sub = clients[n].sub]_vars

\* The two directories and the failure points SaveSupervisorConf is called with.
ConfigDirs == {ConfigDir, DataDir}

\* C11, the function: on every file system the program reaches, for every
\* slot, account and mode, a successful SaveSupervisorConf followed by a
\* second one with the same arguments (the pipe of the first run is there)
\* succeeds again and leaves pipe, log directory and descriptor as the first
\* run left them.
ProvisionTwiceSame ==
    \A c \in 0..MaxCtr, n \in Targets, d \in ConfigDirs :
        LET once == SaveSupervisorConf(Fs, c, n, d, None)
            twice == SaveSupervisorConf(once.fs, c, n, d, None)
        IN  once.err = Ok =>
                /\ twice.err = Ok
                /\ twice.fs = once.fs
                /\ twice.tcpPort = once.tcpPort
                /\ twice.fifoPathName = once.fifoPathName
                /\ FifoPathName(c) \in twice.fs.fifos
                /\ LogFolder(c) \in twice.fs.logDirs
                /\ twice.fs.confFiles[c] = SupervisorctlConfig(c, n, d)

\* Every account the helper provisions has the pipe, the log directory and
\* the descriptor the helper writes for it.
HelperProvisioned ==
    \A i \in 1..Len(HelperItems(dataFiles)) :
        /\ FifoPathName(i - 1) \in fifos
        /\ LogFolder(i - 1) \in logDirs
        /\ (i - 1) \in DOMAIN confFiles
        /\ confFiles[i - 1] = SupervisorctlConfig(i - 1, HelperItems(dataFiles)[i], DataDir)

\* C11, the program: a run of the helper over slots that are provisioned for
\* the same accounts already succeeds without changing pipes, log
\* directories or descriptors.
HelperRerunKeepsDisk ==
    phase = "helper" /\ phase' = "init" /\ HelperProvisioned => disk' = disk

\* C11: provisioning a slot twice in succession, with the same account and
\* mode and a pipe left over from the first run, is idempotent: the second
\* run succeeds and pipe, log directory and descriptor are as after one run.
ReprovisionIdempotent ==
    []ProvisionTwiceSame /\ [][HelperRerunKeepsDisk]_vars

\* The helper has run again after a restart, over the pipes and descriptors
\* of its earlier run, and has succeeded.
HelperRanAgain ==
    /\ phase = "init"
    /\ issued /= <<>>
    /\ HelperProvisioned

\* The path the error of a failed step names.
FailedResource(c, failAt) ==
    CASE failAt = "mkfifo" -> FifoPathName(c)
      [] failAt = "mkdir" -> LogFolder(c)
      [] failAt = "write" -> ConfFileName(c)

\* C12, the function: on every file system the program reaches, a
\* SaveSupervisorConf one of whose steps fails returns an error that names
\* the resource of that step, has done none of the later steps, and gives the
\* caller its counter back unchanged; one whose steps all succeed gives the
\* counter back advanced by one.
ProvisionStepFailureAborts ==
    \A c \in 0..MaxCtr, n \in Targets, d \in ConfigDirs, f \in FailPoints :
        LET r == SaveSupervisorConf(Fs, c, n, d, f)
        IN  IF f = None
            THEN r.err = Ok /\ r.ctr = c + 1
            ELSE /\ r.err /= Ok
                 /\ r.resource = FailedResource(c, f)
                 /\ r.ctr = c
                 /\ r.fs.confFiles = confFiles
                 /\ f \in {"mkfifo", "mkdir"} => r.fs.logDirs = logDirs
                 /\ f = "mkfifo" => FifoPathName(c) \notin r.fs.fifos

\* C12, the callers: the helper, whose counter starts at 0 and advances by
\* one with every account provisioned, has given its accounts the slots 0,
\* 1, 2, ... in order when it has succeeded.
HelperSlotsInOrder ==
    phase = "init" =>
        \A i \in 1..Len(HelperItems(dataFiles)) :
            /\ HelperItems(dataFiles)[i] \in DOMAIN yml
            /\ SlotOf(yml[HelperItems(dataFiles)[i]]) = i - 1

\* C12, the steps: a link flow whose provisioning fails returns the error
\* without registering a session or writing a descriptor; a helper whose
\* provisioning fails does not persist jsonrpc2.yml.
ProvisionFailureStopsCaller ==
    /\ last'.op = "link" /\ last'.ret \in {"fifo_error", "logdir_error", "write_error"} =>
         clients' = clients /\ confFiles' = confFiles
    /\ phase = "helper" /\ phase' = "helper" => yml' = yml

\* C12: a failed step of SaveSupervisorConf gives an error naming the failed
\* resource, none of the later steps is performed and the caller's slot
\* counter is unchanged; the counter advances by exactly one only when every
\* step succeeded.
ProvisionFailureAborts ==
    /\ []ProvisionStepFailureAborts
    /\ []HelperSlotsInOrder
    /\ [][ProvisionFailureStopsCaller]_vars

\* The provisioning of a link flow has failed at the log directory: the pipe
\* of its slot is made, no descriptor is written and no session registered.
ProvisionFailedAtLogDir ==
    /\ last.op = "link"
    /\ last.ret = "logdir_error"
    /\ last.num \notin DOMAIN clients
    /\ \E i \in 1..Len(store) :
         /\ store[i].Number = last.num
         /\ FifoPathName(store[i].ServiceID) \in fifos
         /\ store[i].ServiceID \notin DOMAIN confFiles

\* C13, the states: no id is handed to two callers.
NextCtrNoDuplicate ==
    \A i, j \in 1..Len(issued) : i /= j => issued[i] /= issued[j]

\* C13, the steps: a step in which GetDeviceLinkAwait returns the error of
\* NextCtr (the lock was not acquired, or the file not written) hands out no
\* id and leaves the counter file, the credential directories, the store,
\* the pipes, log directories and descriptors, and the registry as they were.
NextCtrErrorAborts ==
    last'.op = "link" /\ last'.ret = "ctr_error" =>
        /\ issued' = issued
        /\ ctrFile' = ctrFile
        /\ configDirs' = configDirs
        /\ store' = store
        /\ disk' = disk
        /\ yml' = yml
        /\ clients' = clients
        /\ \A p \in Procs : h'[p].pc \in {h[p].pc, "idle"}

\* C13: a NextCtr that cannot take the lock or write the file returns an
\* error and never hands out an id that was issued already; the link flow
\* then ends before the link request, the store write, the provisioning and
\* the registration.
NextCtrFailsWithoutId ==
    []NextCtrNoDuplicate /\ [][NextCtrErrorAborts]_vars

\* A link flow has ended on the error of NextCtr after another flow was
\* given an id, and the counter file still holds that id.
NextCtrFailedAfterIssue ==
    /\ last.op = "link"
    /\ last.ret = "ctr_error"
    /\ issued /= <<>>
    /\ ParseInt(ctrFile) = issued[Len(issued)]
    /\ lockHolders = {}

\* The errors with which GetDeviceLinkAwait ends after NextCtr has given it
\* an id.
LinkFailures ==
    {"link_error", "db_error", "fifo_error", "logdir_error", "write_error", "reread_error",
     NewAlreadyLinkedError("", TRUE), NewAlreadyLinkedError("", FALSE)}

\* C14: a step in which a link flow ends in an error after NextCtr gave it
\* an id leaves every other account as it was: its entry of jsonrpc2.yml
\* (slot, port, pipe path), its pipe, its descriptor, its rows of the store
\* and its session; and an id NextCtr returns was never returned before.
FailedLinkOnlyWastesSlot ==
    [][/\ last'.op = "link" /\ last'.ret \in LinkFailures =>
            /\ yml' = yml
            /\ clients' = clients
            /\ \A i \in 1..Len(store) : Len(store') >= i /\ store'[i] = store[i]
            /\ \A n \in DOMAIN yml \ {last'.num} :
                 /\ (yml[n].fifoPathname \in fifos') = (yml[n].fifoPathname \in fifos)
                 /\ SlotOf(yml[n]) \in DOMAIN confFiles =>
                      /\ SlotOf(yml[n]) \in DOMAIN confFiles'
                      /\ confFiles'[SlotOf(yml[n])] = confFiles[SlotOf(yml[n])]
       /\ Len(issued') > Len(issued) =>
            \A i \in 1..Len(issued) : issued[i] /= issued'[Len(issued')]]_vars

\* C15: however Login and Logout calls on one number interleave, a Login
\* succeeds, and Start is invoked, only on a session that is not logged in:
\* of two concurrent Logins by the owner the second finds the session logged
\* in and does not reach Start, so that Start is not invoked again before a
\* Stop.
LoginStartSerialized ==
    [][last'.call = "Start" =>
          /\ last'.num \in DOMAIN clients
          /\ ~clients[last'.num].loggedIn]_vars

\* The transitions of a session's state.
SessionTransitions ==
    {<<"Stopped", "Starting">>, <<"Starting", "Running">>, <<"Running", "Stopping">>,
     <<"Stopping", "Stopped">>, <<"Starting", "Failed">>, <<"Running", "Failed">>,
     <<"Failed", "Stopped">>}

\* C16: in every step, the state of every session stays as it is or moves
\* along Stopped -> Starting -> Running -> Stopping -> Stopped, or from
\* Starting or Running to Failed, or from Failed to Stopped: a Start takes a
\* session to Starting only from Stopped, a Stop takes it to Stopping only
\* from Running, and a Start or Stop that returns an error for the state it
\* found has not changed the state.
SessionStateMachine ==
    [][\A n \in DOMAIN clients \cap DOMAIN clients' :
          \/ clients'[n].state = clients[n].state
          \/ <<clients[n].state, clients'[n].state>> \in SessionTransitions]_vars

\* A Login has failed to connect and its session is Failed, while a second
\* Login of the same account, which had passed the checks as well, was
\* refused by Start.
StartRefusedWhileFailed ==
    /\ last.call = "Start"
    /\ last.ret = "start_error"
    /\ clients[last.num].state = "Failed"
    /\ \E p \in Procs : h[p].pc = "login_cleanup" /\ h[p].num = last.num

\* The call of caller c has timed out in this step.
TimesOut(c) ==
    calls[c].pc = "waiting" /\ calls'[c].pc = "done" /\ calls'[c].ret = "timeout"

\* C17, the states: no call id of a session is given to two requests, a
\* caller that has timed out has no entry in the pending table, and a call
\* completed by a response has the response to its own request.
TimedOutCallLeavesNoEntry ==
    /\ \A n \in Targets : \A i, j \in 1..Len(sent[n]) :
         i /= j => sent[n][i].id /= sent[n][j].id
    /\ \A c \in Callers :
         calls[c].pc = "done" /\ calls[c].ret = "timeout" =>
             \A id \in DOMAIN clients[calls[c].num].pending :
                 clients[calls[c].num].pending[id] /= c
    /\ \A c \in Callers :
         calls[c].pc = "done" /\ calls[c].ret = "result" => calls[c].got = calls[c].req

\* C17, the steps: a step in which a call times out unblocks that caller
\* only, removes the entry of its call id and no other entry, and leaves
\* the session in its state; a response that arrives for a call id without
\* an entry, as a late one does, is discarded without a change to any call.
TimeoutTouchesOwnCallOnly ==
    /\ \A c \in Callers :
         TimesOut(c) =>
            LET n == calls[c].num
            IN  /\ \A d \in Callers \ {c} : calls'[d] = calls[d]
                /\ calls[c].id \notin DOMAIN clients'[n].pending
                /\ \A id \in DOMAIN clients[n].pending \ {calls[c].id} :
                     /\ id \in DOMAIN clients'[n].pending
                     /\ clients'[n].pending[id] = clients[n].pending[id]
                /\ clients'[n].state = clients[n].state
                /\ clients'[n].nextId = clients[n].nextId
    /\ last'.op = "line" /\ last'.ret = "discarded" => calls' = calls

\* C17: a call whose deadline elapses before a response arrives returns the
\* timeout error to its caller only, its pending-table entry is removed and
\* its call id is not used again, a late response to it is discarded, and a
\* later call on the same session gets the response to its own request.
CallTimeoutIsolated ==
    []TimedOutCallLeavesNoEntry /\ [][TimeoutTouchesOwnCallOnly]_vars

\* A call has timed out, the engine's late response to it has just been
\* discarded, and a later call on the same session has been completed with
\* the response to its own request.
LateResponseAfterTimeout ==
    /\ last.op = "line"
    /\ last.ret = "discarded"
    /\ \E c, d \in Callers :
         /\ calls[c].pc = "done" /\ calls[c].ret = "timeout" /\ calls[c].num = last.num
         /\ calls[d].pc = "done" /\ calls[d].ret = "result" /\ calls[d].num = last.num
         /\ calls[d].req > calls[c].req
         /\ calls[d].got = calls[d].req

\* C18, the states: a caller waits only on a session that is Running or
\* about to be closed by a Stop, and its call is in the pending table of
\* that session: on a session whose Stop has completed no caller waits.
WaitingOnlyWhilePending ==
    \A c \in Callers :
        calls[c].pc = "waiting" =>
            /\ clients[calls[c].num].state \in {"Running", "Stopping"}
            /\ calls[c].id \in DOMAIN clients[calls[c].num].pending
            /\ clients[calls[c].num].pending[calls[c].id] = c

\* C18, the steps: in the step in which Stop completes, every call that was
\* in flight on the session is unblocked with the session-closed error,
\* and the pending table is empty.
StopResolvesEveryCall ==
    last'.call = "Stop" /\ last'.ret = Ok =>
        /\ clients'[last'.num].state = "Stopped"
        /\ DOMAIN clients'[last'.num].pending = {}
        /\ \A c \in Callers :
             calls[c].pc = "waiting" /\ calls[c].num = last'.num =>
                 calls'[c].pc = "done" /\ calls'[c].ret = "session_closed"

\* C18: once Stop on a session has completed, every call that was in flight
\* on it has been given the session-closed error, however many calls there
\* were and however Stop and the calls interleaved: none is left waiting.
StopFailsPendingCalls ==
    []WaitingOnlyWhilePending /\ [][StopResolvesEveryCall]_vars

\* Stop has completed on a session on which every caller had a call in
\* flight: all of them have the session-closed error.
StopClosedAllCalls ==
    /\ last.call = "Stop"
    /\ last.ret = Ok
    /\ \A c \in Callers :
         /\ calls[c].pc = "done"
         /\ calls[c].num = last.num
         /\ calls[c].id > 0
         /\ calls[c].ret = "session_closed"

\* C19, the states: two calls that wait on one session have different call
\* ids, every entry of a pending table is the call of the caller it names,
\* and a caller holds no response but the one to its own request.
CallIdsCorrelate ==
    /\ \A c, d \in Callers :
         c /= d /\ calls[c].pc = "waiting" /\ calls[d].pc = "waiting"
             /\ calls[c].num = calls[d].num => calls[c].id /= calls[d].id
    /\ \A n \in DOMAIN clients : \A id \in DOMAIN clients[n].pending :
         LET c == clients[n].pending[id]
         IN  calls[c].pc = "waiting" /\ calls[c].num = n /\ calls[c].id = id
    /\ \A c \in Callers : calls[c].got /= 0 =>
         /\ calls[c].got = calls[c].req
         /\ sent[calls[c].num][calls[c].got] = [id |-> calls[c].id, by |-> c]

\* C19, the steps: a request is written with a call id no earlier request
\* of the session had; a step that hands a caller a response hands it to
\* that caller alone, takes the entry of its call id out of the pending
\* table and leaves every other entry as it was.
ResponseCompletesOneCall ==
    /\ \A n \in Targets :
         Len(sent'[n]) > Len(sent[n]) =>
             \A i \in 1..Len(sent[n]) : sent[n][i].id /= sent'[n][Len(sent'[n])].id
    /\ \A c \in Callers :
         calls[c].pc = "waiting" /\ calls'[c].ret = "result" =>
            LET n == calls[c].num
            IN  /\ \A d \in Callers \ {c} : calls'[d] = calls[d]
                /\ calls[c].id \notin DOMAIN clients'[n].pending
                /\ \A id \in DOMAIN clients[n].pending \ {calls[c].id} :
                     /\ id \in DOMAIN clients'[n].pending
                     /\ clients'[n].pending[id] = clients[n].pending[id]

\* C19: within a session every call has a call id of its own, and a
\* response line completes exactly the pending call whose id it carries, in
\* whatever order the engine answers: concurrent calls on one session do not
\* get each other's responses.
ResponsesReachTheirCalls ==
    []CallIdsCorrelate /\ [][ResponseCompletesOneCall]_vars

\* Of two calls in flight on one session the engine has answered the later
\* one first: it is completed with its own response while the earlier one
\* still waits.
AnsweredOutOfOrder ==
    \E c, d \in Callers :
        /\ calls[c].pc = "waiting"
        /\ calls[d].pc = "done" /\ calls[d].ret = "result"
        /\ calls[d].num = calls[c].num
        /\ calls[d].req > calls[c].req
        /\ calls[d].got = calls[d].req

\* C20, the function: on every session that is Running, a response line
\* whose call id has no entry in the pending table is discarded by the read
\* loop: no call is completed and the session, its state and its pending
\* table are as before.
UnknownIdIsDiscarded ==
    \A n \in DOMAIN clients, id \in 0..(MaxCalls + 1), k \in 0..MaxCalls :
        clients[n].state = "Running" /\ id \notin DOMAIN clients[n].pending =>
            LET r == Deliver(clients[n], calls, id, k)
            IN  r.discarded /\ r.calls = calls /\ r.client = clients[n]

\* C20, the steps: a step in which the read loop discards a line changes no
\* call and no session.
DiscardChangesNothing ==
    last'.op = "line" /\ last'.ret = "discarded" =>
        /\ calls' = calls
        /\ clients' = clients
        /\ clients'[last'.num].state = "Running"

\* C20: a response line with a call id that has no pending call (a
\* duplicate, a late or an unknown one) is discarded: it completes no call,
\* changes no entry of the pending table and leaves the session Running.
StrayResponseDiscarded ==
    []UnknownIdIsDiscarded /\ [][DiscardChangesNothing]_vars

\* The read loop has discarded a line while a call is pending on the
\* session: the call still waits, with its entry.
DiscardedWhileCallPending ==
    /\ last.op = "line"
    /\ last.ret = "discarded"
    /\ clients[last.num].state = "Running"
    /\ \E c \in Callers :
         /\ calls[c].pc = "waiting"
         /\ calls[c].num = last.num
         /\ calls[c].id \in DOMAIN clients[last.num].pending

\* The pending table of every session holds only calls that wait: the entry
\* of a call id names the caller that waits on this session with this id.
NoEntryWithoutWaiter ==
    \A n \in DOMAIN clients : \A id \in DOMAIN clients[n].pending :
        LET c == clients[n].pending[id]
        IN  /\ calls[c].pc = "waiting"
            /\ calls[c].num = n
            /\ calls[c].id = id

\* A step that cancels a call unblocks its caller with the error of the
\* context, takes the entry of the call out of the pending table and leaves
\* the other entries and the other callers as they were.
CancelRemovesEntry ==
    \A c \in Callers :
        calls[c].pc = "waiting" /\ calls'[c].pc = "done" /\ calls'[c].ret = "cancelled" =>
            LET n == calls[c].num
            IN  /\ calls[c].id \in DOMAIN clients[n].pending
                /\ clients'[n].pending = RemoveAt(clients[n].pending, calls[c].id)
                /\ clients'[n].state = clients[n].state
                /\ \A d \in Callers \ {c} : calls'[d] = calls[d]

\* C21: a call that is cancelled through the caller's context or deadline
\* unblocks its caller and removes its entry of the pending table; no
\* cancelled call leaves an entry behind.
CancelledCallLeavesNoEntry ==
    []NoEntryWithoutWaiter /\ [][CancelRemovesEntry]_vars

\* A call on the bootstrap session (as finishLink is) has been cancelled
\* while the session is Running and another call waits on it: the entry of
\* the cancelled call is gone, the other is there.
FinishLinkCancelled ==
    \E c \in Callers, d \in Callers :
        /\ calls[c].num = LinkNumber
        /\ calls[c].ret = "cancelled"
        /\ clients[LinkNumber].state = "Running"
        /\ calls[c].id \notin DOMAIN clients[LinkNumber].pending
        /\ calls[d].pc = "waiting"
        /\ calls[d].num = LinkNumber
        /\ calls[d].id \in DOMAIN clients[LinkNumber].pending

\* Every entry of the pending table of a session is a call that was made
\* for the account of that session.
CallsOnOwnSession ==
    \A n \in DOMAIN clients : \A id \in DOMAIN clients[n].pending :
        calls[clients[n].pending[id]].num = n

\* A step that completes a call with a response: the call was pending on
\* the session of its own account, the response is a line of that session's
\* connection with the id of the call, and the step changes no other caller
\* and no other session.
ResponseStaysInSession ==
    \A c \in Callers :
        calls[c].pc = "waiting" /\ calls'[c].ret = "result" =>
            LET n == calls[c].num
            IN  /\ calls[c].id \in DOMAIN clients[n].pending
                /\ calls'[c].got \in 1..Len(sent[n])
                /\ sent[n][calls'[c].got].id = calls[c].id
                /\ \A m \in DOMAIN clients \ {n} : clients'[m] = clients[m]
                /\ \A d \in Callers \ {c} : calls'[d] = calls[d]

\* A step that pushes a notification to, or takes one from, the channel of
\* a session completes no call, changes no pending table and leaves the
\* read loop of every other session as it was.
NotificationLeavesCallsAlone ==
    notes' /= notes =>
        /\ calls' = calls
        /\ clients' = clients
        /\ \A n \in Targets : notes'[n] = notes[n] => (CanRead(n)' <=> CanRead(n))
        /\ \E n \in Targets : \A m \in Targets \ {n} : notes'[m] = notes[m]

\* C22: sessions are isolated from one another: a response arriving on the
\* connection of slot 1 completes a pending call of slot 1's session only,
\* and a notification arriving on slot 0 neither completes nor delays a
\* call of slot 1.
SessionsIsolated ==
    /\ []CallsOnOwnSession
    /\ [][ResponseStaysInSession /\ NotificationLeavesCallsAlone]_vars

\* A call on the session of slot 1 has been completed by its own response
\* while a notification waited in the channel of slot 0 and a call on the
\* session of slot 0 was, and still is, pending.
SlotOneAnsweredBesideNotification ==
    \E c \in Callers, d \in Callers :
        /\ calls[c].num = LinkedAccount.Number
        /\ clients[calls[c].num].tcpPort = LinkTcpPort + 1
        /\ calls[c].ret = "result"
        /\ calls[c].got = calls[c].req
        /\ calls[c].seen[LinkNumber] > 0
        /\ calls[d].pc = "waiting"
        /\ calls[d].num = LinkNumber
        /\ calls[d].id \in DOMAIN clients[LinkNumber].pending

\* What the helper has written to jsonrpc2.yml when it has run to its end:
\* the bootstrap account has port base+0 and the pipe of slot 0; the first
\* account file of the data directory has port base+1 and the pipe of slot 1.
HelperGaveFirstSlots ==
    phase \in {"init", "running"} =>
        LET items == HelperItems(dataFiles)
        IN  /\ items[1] = LinkNumber
            /\ yml[LinkNumber] = [tcpPort |-> LinkTcpPort + 0, fifoPathname |-> FifoPathName(0)]
            /\ Len(items) > 1 =>
                  yml[items[2]] = [tcpPort |-> LinkTcpPort + 1, fifoPathname |-> FifoPathName(1)]

\* The helper's successful run leaves the pipes and the descriptors of
\* slot 0, for the bootstrap account, and of slot 1, for the first account.
HelperWroteFirstSlots ==
    phase = "helper" /\ phase' = "init" =>
        LET items == HelperItems(dataFiles)
        IN  /\ FifoPathName(0) \in fifos'
            /\ confFiles'[0] = SupervisorctlConfig(0, LinkNumber, DataDir)
            /\ Len(items) > 1 =>
                  /\ FifoPathName(1) \in fifos'
                  /\ confFiles'[1] = SupervisorctlConfig(1, items[2], DataDir)

\* The bootstrap session Init builds connects to the port the helper gave
\* the bootstrap account.
BootstrapSessionOnSlotZero ==
    phase = "running" =>
        /\ LinkNumber \in DOMAIN clients
        /\ clients[LinkNumber].tcpPort = yml[LinkNumber].tcpPort
        /\ clients[LinkNumber].tcpPort = LinkTcpPort + 0

\* C23: bootstrap provisioning gives the bootstrap account slot 0, port
\* base+0 and the pipe of slot 0, and the first account provisioned after it
\* slot 1, port base+1 and the pipe of slot 1; the bootstrap session built
\* by Init connects to that same port base+0.
BootstrapSlotsZeroAndOne ==
    /\ []HelperGaveFirstSlots
    /\ []BootstrapSessionOnSlotZero
    /\ [][HelperWroteFirstSlots]_vars

\* The API runs after the helper has provisioned the bootstrap account and
\* an account of the data directory, and Init has built both sessions.
BootstrapAndAccountProvisioned ==
    /\ phase = "running"
    /\ Len(HelperItems(dataFiles)) > 1
    /\ HelperItems(dataFiles)[2] \in DOMAIN clients
    /\ clients[HelperItems(dataFiles)[2]].tcpPort = LinkTcpPort + 1
    /\ clients[LinkNumber].tcpPort = LinkTcpPort

\* The row a link flow commits for handler record r.
LinkRow(r) == LinkedNumber(r.sub, r.num, r.ctr)

\* The store is written by a link flow that holds a slot NextCtr has issued;
\* the step writes no descriptor and registers no session.
LinkCommitAfterSlot ==
    phase = "running" /\ store' /= store =>
        /\ \E p \in Procs :
              /\ h[p].pc = "linksub_create"
              /\ h'[p] /= h[p]
              /\ \E i \in 1..Len(issued) : issued[i] = h[p].ctr
              /\ store' = Append(store, LinkRow(h[p]))
        /\ disk' = disk
        /\ clients' = clients

\* A descriptor is written by a link flow whose row is in the store: the
\* descriptor of its slot, for its account.
LinkDescriptorAfterCommit ==
    phase = "running" /\ confFiles' /= confFiles =>
        \E p \in Procs :
            /\ h[p].pc = "save_conf"
            /\ h'[p] /= h[p]
            /\ \E i \in 1..Len(store) : store[i] = LinkRow(h[p])
            /\ confFiles' = SetAt(confFiles, h[p].ctr,
                                  SupervisorctlConfig(h[p].ctr, h[p].num, ConfigDir))

\* A link flow that fails at the descriptor or at the reread registers no
\* session; the reread is reached with the descriptor written.
LinkFailureRegistersNothing ==
    /\ last'.op = "link" /\ last'.ret \in {"fifo_error", "logdir_error", "write_error",
                                            "reread_error"} => clients' = clients
    /\ last' /= last /\ last'.op = "link" /\ last'.ret = "reread_error" =>
          \E p \in Procs :
              /\ h[p].pc = "save_conf"
              /\ h'[p] /= h[p]
              /\ h[p].ctr \in DOMAIN confFiles'
              /\ confFiles'[h[p].ctr] = SupervisorctlConfig(h[p].ctr, h[p].num, ConfigDir)

\* A session is put in the registry of the running API by a link flow that
\* returns no error: its row is in the store, the pipe and the descriptor of
\* its slot are written, and the session is built for that slot's port.
LinkRegistersLast ==
    phase = "running" /\ phase' = "running" /\ clients' /= clients =>
        \E p \in Procs :
            /\ h[p].pc = "save_conf"
            /\ h'[p] /= h[p]
            /\ last'.op = "link"
            /\ last'.ret = Ok
            /\ \E i \in 1..Len(issued) : issued[i] = h[p].ctr
            /\ \E i \in 1..Len(store) : store[i] = LinkRow(h[p])
            /\ FifoPathName(h[p].ctr) \in fifos'
            /\ h[p].ctr \in DOMAIN confFiles'
            /\ confFiles'[h[p].ctr] = SupervisorctlConfig(h[p].ctr, h[p].num, ConfigDir)
            /\ clients' = SetAt(clients, h[p].num,
                                NewJsonRpc2Client(h[p].num, TcpPort(h[p].ctr), h[p].sub))

\* C24: in the link flow the steps happen in the order: slot allocated, link
\* committed in the store, descriptor written, supervisor told to reread,
\* session registered; a session is put in the registry only if the store
\* write, the descriptor write and the reread all succeeded.
LinkStepsInOrder ==
    [][/\ LinkCommitAfterSlot
       /\ LinkDescriptorAfterCommit
       /\ LinkFailureRegistersNothing
       /\ LinkRegistersLast]_vars

\* Two link flows have gone through all their steps: both accounts have a
\* row, a descriptor and a session.
BothAccountsLinkedInOrder ==
    /\ last.op = "link"
    /\ last.ret = Ok
    /\ \A n \in Numbers :
          /\ n \in DOMAIN clients
          /\ \E i \in 1..Len(store) :
                /\ store[i].Number = n
                /\ store[i].ServiceID \in DOMAIN confFiles
                /\ clients[n].tcpPort = TcpPort(store[i].ServiceID)

\* The session of account n is in the registry and is logged in.
LoggedIn(registry, n) == n \in DOMAIN registry /\ registry[n].loggedIn

\* CheckAccess on an account whose session is not logged in fails for every
\* subject, the one the session was built for included.
AccessFailsWhileLoggedOut ==
    \A n \in Numbers, s \in Subs :
        n \in DOMAIN clients /\ ~clients[n].loggedIn =>
            CheckAccessErr(clients, s, n) = "not_logged_in"

\* A step that puts a session for an account in the registry, as the link
\* flow and Init do, puts it there Stopped and not logged in.
SessionsCreatedLoggedOut ==
    \A n \in Numbers :
        n \in DOMAIN clients' /\ n \notin DOMAIN clients =>
            /\ ~clients'[n].loggedIn
            /\ clients'[n].state = "Stopped"

\* The session of an account becomes logged in only in the Start of a Login
\* for that account, made by the subject the store lists as its owner, that
\* returns no error.
LoggedInOnlyByOwnersLogin ==
    \A n \in Numbers :
        LoggedIn(clients', n) /\ ~LoggedIn(clients, n) =>
            /\ last'.op = "login"
            /\ last'.num = n
            /\ last'.ret = Ok
            /\ last'.call = "Start"
            /\ CheckIfSubIsValid(store, last'.sub, n) = Ok

\* A CheckAccess that is granted finds the session logged in.
AccessGrantedOnlyLoggedIn ==
    last' /= last /\ last'.op = "access" /\ last'.ret = Ok =>
        LoggedIn(clients, last'.num) /\ last'.entry = "logged_in"

\* C25: a session created by the link flow or by startup discovery for an
\* account is not logged in: CheckAccess on it fails for every subject until
\* a Login by the owning subject has succeeded.
NoAccessBeforeOwnersLogin ==
    /\ []AccessFailsWhileLoggedOut
    /\ [][/\ SessionsCreatedLoggedOut
          /\ LoggedInOnlyByOwnersLogin
          /\ AccessGrantedOnlyLoggedIn]_vars

\* After a restart Init has built the session of an account from
\* jsonrpc2.yml and the store (the port is the helper's, not the one of the
\* slot the account was linked on), and CheckAccess by the owner has failed
\* on it: the session is not logged in.
DiscoveredSessionRefusesOwner ==
    /\ last.op = "access"
    /\ last.ret = "not_logged_in"
    /\ last.num \in DOMAIN clients
    /\ last.num \in DOMAIN yml
    /\ clients[last.num].tcpPort = yml[last.num].tcpPort
    /\ GetSubByNumber(store, last.num).ok
    /\ GetSubByNumber(store, last.num).sub = last.sub
    /\ clients[last.num].sub = last.sub
    /\ clients[last.num].tcpPort /= TcpPort(FirstRow(store, last.num).ServiceID)

\* A step that is a lookup of the registry map: a CheckAccess returns, or the
\* runtime ends the process in one.
LookupStep ==
    \/ last' /= last /\ last'.op = "access"
    \/ phase = "running" /\ phase' = "helper"

\* C26: the registry map is accessed under mutual exclusion: no lookup runs
\* while the map is being written.
RegistryMutualExclusion ==
    [][LookupStep => RegWriters = {}]_vars

\* C27, Init: when the bootstrap session cannot be started, Init returns an
\* error: an Init after which the API serves requests has started the
\* bootstrap session.
InitReportsStartError ==
    [][phase = "init" /\ phase' = "running" =>
          /\ LinkNumber \in DOMAIN clients'
          /\ clients'[LinkNumber].state = "Running"]_vars

\* No read loop waits in a push, whatever is in the channels.
ReadersNeverBlocked ==
    \A n \in Targets : ~notes[n].blocked

\* Whatever waits in its channel, the read loop of a Running session reads
\* the next line, and the response to a pending call completes that call.
ResponsesStillDelivered ==
    \A n \in DOMAIN clients :
        clients[n].state = "Running" =>
            /\ CanRead(n)
            /\ \A k \in 1..Len(sent[n]) :
                  sent[n][k].id \in DOMAIN clients[n].pending =>
                      LET r == Deliver(clients[n], calls, sent[n][k].id, k)
                          c == clients[n].pending[sent[n][k].id]
                      IN  /\ ~r.discarded
                          /\ r.calls[c].pc = "done"
                          /\ r.calls[c].ret = "result"
                          /\ r.calls[c].got = k

\* The step that pushes a notification leaves the read loop reading, and
\* changes the channel of its own session only.
PushLeavesLoopReading ==
    \A n \in Targets :
        notes'[n].queued > notes[n].queued =>
            /\ CanRead(n)'
            /\ notes'[n].queued = notes[n].queued + 1
            /\ \A m \in Targets \ {n} : notes'[m] = notes[m]
            /\ clients' = clients
            /\ calls' = calls

\* C28: a line without a call id is pushed to the notification channel of
\* the session that received it without blocking that session's read loop:
\* with a slow or absent consumer, responses that arrive afterwards on the
\* same session still complete their pending calls, and other sessions are
\* not delayed.
NotificationsNeverBlock ==
    /\ []ReadersNeverBlocked
    /\ []ResponsesStillDelivered
    /\ [][PushLeavesLoopReading]_vars

\* A notification waits in the channel of a session, no consumer has taken
\* it, and a response that arrived after it on the same session has
\* completed its call.
AnsweredBehindNotification ==
    \E c \in Callers :
        /\ calls[c].pc = "done"
        /\ calls[c].ret = "result"
        /\ calls[c].got = calls[c].req
        /\ calls[c].seen[calls[c].num] > 0
        /\ notes[calls[c].num].queued = calls[c].seen[calls[c].num]

\* C29, the functions: on every store the program reaches, for every
\* subject and number: on a linked number CheckIfAlreadyLinked and LinkSub
\* return the AlreadyLinkedError whose ThisUser flag tells whether the
\* caller is the owner the store lists, and LinkSub leaves the rows as they
\* are; on a number that is not linked CheckIfAlreadyLinked returns no error
\* and LinkSub adds the row (subject, number, slot id).
AlreadyLinkedTellsOwner ==
    \A s \in Subs, n \in Numbers, c \in 0..MaxCtr :
        LET linked == RowsOf(store, n) /= {}
            r == LinkSub(store, s, n, c, TRUE)
            e == CheckIfAlreadyLinked(store, s, n)
        IN  IF linked
            THEN /\ e = r.err
                 /\ r.rows = store
                 /\ e \in {"already_linked_this_user", "already_linked_another_user"}
                 /\ (e = "already_linked_this_user") <=> (FirstRow(store, n).Sub = s)
            ELSE /\ e = Ok
                 /\ r.err = Ok
                 /\ r.rows = Append(store, [Number |-> n, Sub |-> s, ServiceID |-> c])

\* C29, the link flow: a LinkSub that returns an AlreadyLinkedError found a
\* row for the number, tells the caller whether the row is its own, and
\* leaves the store as it is; a LinkSub that inserts adds the row of its
\* subject, number and slot.
LinkSubAnswersByOwner ==
    /\ last' /= last /\ last'.op = "link"
          /\ last'.ret \in {"already_linked_this_user", "already_linked_another_user"} =>
          /\ RowsOf(store, last'.num) /= {}
          /\ (last'.ret = "already_linked_this_user") <=>
                 (FirstRow(store, last'.num).Sub = last'.sub)
          /\ store' = store
    /\ store' /= store =>
          \E p \in Procs :
              /\ h'[p] /= h[p]
              /\ store' = Append(store, [Number |-> h[p].num, Sub |-> h[p].sub,
                                          ServiceID |-> h[p].ctr])

\* C29: LinkSub and CheckIfAlreadyLinked on a number that is already linked
\* return an AlreadyLinkedError whose ThisUser flag is true exactly when the
\* calling subject is the current owner, and leave the stored row unchanged;
\* on a number that is not linked, CheckIfAlreadyLinked returns no error and
\* LinkSub creates the row (subject, number, slot id).
AlreadyLinkedErrorByOwner ==
    []AlreadyLinkedTellsOwner /\ [][LinkSubAnswersByOwner]_vars

\* The owner of a number has tried to link it again and has been told that
\* the number is linked to this user; the row is the one of the first link.
OwnerToldAlreadyLinked ==
    /\ last.op = "link"
    /\ last.ret = "already_linked_this_user"
    /\ Len(store) = 1
    /\ store[1].Number = last.num
    /\ store[1].Sub = last.sub
    /\ store[1].ServiceID < Len(issued)

RECURSIVE Pow10(_)
Pow10(n) == IF n = 0 THEN 1 ELSE 10 * Pow10(n - 1)

\* The decimal integers the contents of CtrContents can hold.
CtrValues == (0 - Pow10(MaxFileLen))..Pow10(MaxFileLen)

\* The content is a decimal integer as FormatInt writes it, or one with a
\* sign or zeros before it: an optional sign, then digits.
Numeric(content) ==
    \E i \in 0..1 :
        /\ Len(content) > i
        /\ i = 1 => content[1] \in {"+", "-"}
        /\ \A j \in (i + 1)..Len(content) : content[j] \in {"0", "1", "9"}

\* C30, the function: for every content of the counter file, NextCtr returns
\* 1 and writes "1" when the content is empty or not numeric, and returns
\* and writes k + 1 when the content is the decimal integer k.
NextCtrParsesAndAdds ==
    \A content \in CtrContents :
        LET r == NextCtr(ParseInt(content), TRUE)
        IN  /\ r.err = Ok
            /\ r.written
            /\ ~Numeric(content) => r.next = 1 /\ FormatInt(r.next) = <<"1">>
            /\ \A k \in CtrValues :
                  content = FormatInt(k) =>
                      /\ r.next = k + 1
                      /\ ParseInt(FormatInt(r.next)) = k + 1

\* C30, the link flow: NextCtr reads the file while it holds the lock, and
\* in the step in which it returns an id it holds the lock, the id is the
\* value read plus 1, and the file holds the id in decimal.
NextCtrWritesUnderLock ==
    /\ \A p \in Procs :
          h'[p].pc = "nextctr_write" /\ h[p].pc /= "nextctr_write" =>
              /\ lockHolders' = {p}
              /\ h'[p].cur = ParseInt(ctrFile)
    /\ issued' /= issued =>
          \E p \in Procs :
              /\ lockHolders = {p}
              /\ h[p].cur = ParseInt(ctrFile)
              /\ issued' = Append(issued, ParseInt(ctrFile) + 1)
              /\ ctrFile' = FormatInt(ParseInt(ctrFile) + 1)
              /\ h'[p].ctr = ParseInt(ctrFile) + 1
    /\ ctrFile' /= ctrFile => issued' /= issued

\* C30: NextCtr reads the counter file under the lock, treats empty or
\* non-numeric content as 0, and writes back and returns current + 1; for a
\* file holding the decimal integer k it writes and returns k + 1.
NextCtrReadsAddsWrites ==
    []NextCtrParsesAndAdds /\ [][NextCtrWritesUnderLock]_vars

\* NextCtr has found the counter file holding 9, has returned 10 and has
\* left "10" in the file.
NextCtrFromNine ==
    /\ ctr0 = 9
    /\ issued = <<10>>
    /\ ctrFile = <<"1", "0">>

(* ------------------------------------------- provisioning, the descriptor *)

\* C31: every successful provisioning has set the ownership of the slot's
\* pipe to the configured run-as uid/gid before it wrote the descriptor: no
\* descriptor is written for a pipe whose ownership was not set. Every
\* descriptor on disk whose pipe exists names a pipe owned by RunAs.
DescriptorOnlyForOwnedPipe ==
    \A c \in DOMAIN confFiles :
        confFiles[c].fifo \in fifos =>
            /\ confFiles[c].fifo \in DOMAIN fifoOwners
            /\ fifoOwners[confFiles[c].fifo] = RunAs

\* The descriptor of the bootstrap account: manual-receive mode, no identity.
LinkOnlyDescriptor(d) ==
    /\ d.jsonRpcParams = <<"--receive-mode=manual">>
    /\ d.provisioningParams = <<>>

\* The descriptor of account number on slot ctr under directory dir: the
\* identity and the credential directory of the slot, no manual-receive mode.
AccountDescriptor(d, ctr, number, dir) ==
    /\ d.provisioningParams = <<"-u", number, "--config", <<dir, ctr>>>>
    /\ d.jsonRpcParams = <<>>

\* C32, the function: for every slot, account identifier and directory the
\* descriptor is the bootstrap's exactly when the identifier is LinkNumber,
\* and is the account's otherwise.
DescriptorByIdentifier ==
    \A ctr \in 0..MaxCtr, number \in Targets, dir \in {ConfigDir, DataDir} :
        LET d == SupervisorctlConfig(ctr, number, dir)
        IN  /\ number = LinkNumber => LinkOnlyDescriptor(d)
            /\ number /= LinkNumber => AccountDescriptor(d, ctr, number, dir)
            /\ LinkOnlyDescriptor(d) <=> number = LinkNumber

\* C32, on disk: every descriptor is the bootstrap's or the one of an account
\* with the directory of the slot the descriptor is for; the helper's first
\* descriptor is the bootstrap's.
DescriptorsOnDisk ==
    /\ \A c \in DOMAIN confFiles :
          \/ LinkOnlyDescriptor(confFiles[c])
          \/ \E n \in Numbers, dir \in {ConfigDir, DataDir} :
                AccountDescriptor(confFiles[c], c, n, dir)
    /\ 0 \in DOMAIN confFiles => LinkOnlyDescriptor(confFiles[0])

\* C32, the link flow: the descriptor it writes is the one of the number it
\* links, with the directory the engine stored the credentials of this
\* number in.
LinkDescriptorOfOwnSlot ==
    \A p \in Procs :
        /\ h[p].pc = "save_conf"
        /\ h'[p] /= h[p]
        /\ confFiles' /= confFiles
        => /\ h[p].ctr \in DOMAIN confFiles'
           /\ AccountDescriptor(confFiles'[h[p].ctr], h[p].ctr, h[p].num, ConfigDir)
           /\ h[p].ctr \in DOMAIN configDirs
           /\ configDirs[h[p].ctr] = h[p].num

\* C32: the descriptor of the bootstrap account has the manual-receive mode
\* and no identity argument; the descriptor of any other account has its
\* identity and the credential directory of its own slot and no
\* manual-receive mode; only the identifier being the bootstrap sentinel
\* decides.
DescriptorModeByAccount ==
    /\ []DescriptorByIdentifier
    /\ []DescriptorsOnDisk
    /\ [][LinkDescriptorOfOwnSlot]_vars

\* The helper has written the descriptors of the bootstrap account and of an
\* account of the data directory, and a link flow the one of another account
\* on slot 2.
ThreeDescriptorsWritten ==
    /\ DOMAIN confFiles = {0, 1, 2}
    /\ LinkOnlyDescriptor(confFiles[0])
    /\ \E n \in Numbers : AccountDescriptor(confFiles[1], 1, n, DataDir)
    /\ \E n \in Numbers : AccountDescriptor(confFiles[2], 2, n, ConfigDir)

(* --------------------------------------------- the store and the registry *)

\* C33: after any sequence of link attempts, failed ones included, every
\* number that has a row in the Subject Link Store has a session in the
\* registry: while the API serves requests and no link attempt is under way,
\* no row is without a session.
LinkedNumbersHaveSession ==
    phase = "running" /\ (\A p \in Procs : Free(p)) =>
        \A i \in 1..Len(store) : store[i].Number \in DOMAIN clients

\* The subject recorded in every registered account session is the owner
\* the store records for the number.
SessionSubIsOwner ==
    \A n \in DOMAIN clients \ {LinkNumber} :
        /\ GetSubByNumber(store, n).ok
        /\ clients[n].sub = GetSubByNumber(store, n).sub

\* A CheckAccess(sub, number) that has succeeded found the session
\* registered and logged in, and the store lists sub as the owner of number.
AccessOnlyForOwner ==
    last.op = "access" /\ last.ret = Ok =>
        /\ last.num \in DOMAIN clients
        /\ clients[last.num].loggedIn
        /\ GetSubByNumber(store, last.num).ok
        /\ GetSubByNumber(store, last.num).sub = last.sub

\* C34: in every reachable state the subject recorded in a registered
\* account session equals the owner the Subject Link Store records for the
\* number, and CheckAccess(sub, number) succeeds only if the session is
\* registered, is logged in, and the store lists sub as the owner of number.
SessionSubMatchesStore ==
    SessionSubIsOwner /\ AccessOnlyForOwner

(* ------------------------------------------------- the bootstrap session *)

\* getJsonRpc2Client returns an error for the bootstrap identifier and
\* returns the bootstrap session for no identifier.
BootstrapNeverReturned ==
    /\ getJsonRpc2Client(clients, LinkNumber).err /= Ok
    /\ \A n \in Targets : getJsonRpc2Client(clients, n).key /= LinkNumber

\* A Login or Logout on the bootstrap identifier has failed without a call
\* of Start or Stop, and no handler stands before such a call.
BootstrapLoginLogoutFail ==
    /\ last.op \in {"login", "logout"} /\ last.num = LinkNumber =>
          last.ret /= Ok /\ last.call = None
    /\ \A p \in Procs :
          h[p].pc \in {"login_start", "logout_stop"} => h[p].num /= LinkNumber

\* While the API serves requests the bootstrap session stays as Init left it.
BootstrapSessionUntouched ==
    phase = "running" /\ phase' = "running" /\ LinkNumber \in DOMAIN clients =>
        /\ LinkNumber \in DOMAIN clients'
        /\ clients'[LinkNumber] = clients[LinkNumber]

\* C35: the bootstrap session is out of reach of subjects: getJsonRpc2Client
\* never returns it, Login and Logout on the bootstrap identifier fail for
\* every subject, and once started by Init it is never stopped through
\* Logout.
BootstrapOutOfReach ==
    /\ []BootstrapNeverReturned
    /\ []BootstrapLoginLogoutFail
    /\ [][BootstrapSessionUntouched]_vars

\* The owner of a linked account has asked to log the running bootstrap
\* session out and was refused.
BootstrapLogoutRefused ==
    /\ last.op = "logout"
    /\ last.num = LinkNumber
    /\ last.ret = "not_found"
    /\ clients[LinkNumber].state = "Running"
    /\ \E i \in 1..Len(store) : store[i].Sub = last.sub

(* ------------------------------------------------ services addressed by port *)

\* The supervisorctl command that addresses program with verb.
Supervisorctl(verb, program) == <<"supervisorctl", verb, program>>

\* C36, the functions: for every slot k, account and directory, the port
\* SaveSupervisorConf returns for the slot makes StartServiceByPort and
\* StopServiceByPort address the program name of the descriptor it wrote,
\* signal-cli-json-rpc-k, whether or not the command succeeds; a port below
\* the base port gives an error and no command.
ServiceByPortOfSlot ==
    /\ \A k \in 0..MaxCtr, number \in Targets, runs \in BOOLEAN :
          LET r == SaveSupervisorConf(Fs, k, number, ConfigDir, None)
              program == r.fs.confFiles[k].program
          IN  /\ r.err = Ok
              /\ program = <<"signal-cli-json-rpc-", k>>
              /\ StartServiceByPort(r.tcpPort, runs).command
                    = Supervisorctl("start", program)
              /\ StopServiceByPort(r.tcpPort, runs).command
                    = Supervisorctl("stop", program)
              /\ StartServiceByPort(r.tcpPort, runs).err /= "invalid_port"
              /\ StopServiceByPort(r.tcpPort, runs).err /= "invalid_port"
    /\ \A tcpPort \in ServicePorts, runs \in BOOLEAN :
          tcpPort < LinkTcpPort =>
              /\ StartServiceByPort(tcpPort, runs) = [err |-> "invalid_port", command |-> <<>>]
              /\ StopServiceByPort(tcpPort, runs) = [err |-> "invalid_port", command |-> <<>>]

\* C36, the calls: the last call of a service function, if its port is the
\* one of a descriptor on disk, has addressed the program name written in the
\* descriptor of that slot; if its port is below the base port it has
\* returned an error and run no command.
ServiceCallAddressesDescriptor ==
    svc.op /= None =>
        /\ \A k \in DOMAIN confFiles :
              svc.tcpPort = confFiles[k].tcpPort =>
                  /\ svc.command = Supervisorctl(svc.op, confFiles[k].program)
                  /\ confFiles[k].program = <<"signal-cli-json-rpc-", k>>
        /\ svc.tcpPort < LinkTcpPort =>
              svc.err = "invalid_port" /\ svc.command = <<>>

\* C36: StartServiceByPort and StopServiceByPort, called with the port that
\* SaveSupervisorConf returned for slot k, address the program name written
\* in slot k's descriptor; called with a port below the base port they
\* return an error and issue no supervisor command.
ServiceByPortAddressesSlot ==
    ServiceByPortOfSlot /\ ServiceCallAddressesDescriptor

\* StopServiceByPort was called with the port of slot 1, which a link flow
\* has provisioned, and has addressed the program of slot 1's descriptor.
SlotOneStoppedByPort ==
    /\ svc.op = "stop"
    /\ 1 \in DOMAIN confFiles
    /\ svc.tcpPort = confFiles[1].tcpPort
    /\ svc.command = Supervisorctl("stop", confFiles[1].program)
    /\ \E i \in 1..Len(store) : store[i].ServiceID = 1

====
